---- MODULE Spec2Model ----
(***************************************************************************)
(* The authentication and authorization layer of the three Express /       *)
(* PostgreSQL backends of the repository:                                  *)
(*   "ecommerce"    src/unnamed/part_002 (local accounts + Kakao OAuth)    *)
(*   "marketplace"  src/unnamed/part_001 and                               *)
(*                  src/workspace/afm-examples-backend/dangun_01/server.js *)
(*                  lines 1-165 (the same auth code)                       *)
(*   "todo"         server.js lines 167-350                                *)
(* One process serves one backend; `variant` says which one it is.         *)
(* A handler whose code issues one SQL statement is one action.            *)
(* Time is counted in days; strings are TLA+ strings, SQL NULL and a       *)
(* missing JSON field are both Null.                                       *)
(***************************************************************************)
EXTENDS Integers, Sequences, FiniteSets, TLC

VARIABLES
    variant,  \* which backend this process is
    users,    \* the rows of the users table
    seq,      \* last value handed out by the SERIAL sequence of users.id
    now,      \* the clock, in days
    held,     \* the tokens the browser holds (none, or the one it stored last)
    last,     \* what the last request was and how it was answered
    registered, \* history: the credentials register has accepted, with the id given
    inflight, \* the requests being handled step by step, one per connection
    products, \* the rows of the products table (marketplace)
    pseq,     \* last value handed out by the SERIAL sequence of products.id
    todos,    \* the rows of the todos table (todo)
    tseq,     \* last value handed out by the SERIAL sequence of todos.id
    down,     \* whether the database refuses statements at the moment
    db        \* the process's view of its tables: initialised or not yet

vars == <<variant, users, seq, now, held, last, registered,
          inflight, products, pseq, todos, tseq, down, db>>

----------------------------------------------------------------------------
(* Bounds of the model *)

MaxSeq == 2
MaxDay == 8
MaxProcs == 2
MaxProducts == 2
MaxTodos == 2

\* the connections that can be open at once
Procs == 1 .. MaxProcs

\* a connection without a request
Idle == [op |-> "idle"]

----------------------------------------------------------------------------
(* Values *)

Null == "~null"

Variants == {"ecommerce", "marketplace", "todo"}

\* a test for null in place of JavaScript's !v
FalsyNullOnly(v) == v = Null

Falsy(v) == v = Null \/ v = ""

OrNull(v) == IF Falsy(v) THEN Null ELSE v

\* COALESCE with its arguments swapped
CoalesceSwapped(a, b) == IF b # Null THEN b ELSE a

Coalesce(a, b) == IF a # Null THEN a ELSE b

JWT_SECRET ==
    CASE variant = "ecommerce" -> "lueur-ecommerce-secret-key"
      [] variant = "marketplace" -> "dangun-01-secret-key"
      [] variant = "todo" -> "todo-app-01-secret-key"

MinPasswordLen == 6
TokenTtlDays == 7

UsernameWidth == 50
NicknameWidth == 50
EmailWidth == 100
PhoneWidth == 20
LocationWidth == 100
KakaoIdWidth == 100

DefaultLocation == "Seoul Gangnam-gu"
KakaoFallbackNickname == "Kakao user"

(* Response messages (the Korean texts of the source, in English) *)
MsgLoginRequired == "login required"
MsgInvalidToken == "invalid token"
MsgTokenRequired == "Token required"
MsgInvalidTokenTodo == "Invalid token"
MsgFieldsRequired == "enter username, password and nickname"
MsgFieldsRequiredTodo == "Username and password required"
MsgPasswordTooShort == "password must be at least 6 characters"
MsgUsernameExists == "username already exists"
MsgUsernameExistsTodo == "Username already exists"
MsgServerError == "server error"
MsgServerErrorTodo == "Server error"
MsgLoginFieldsRequired == "enter username and password"
MsgBadCredentials == "username or password is wrong"
MsgBadCredentialsTodo == "Invalid credentials"
MsgUserNotFound == "user not found"
MsgKakaoAuthFailed == "kakao authentication failed"
MsgKakaoTokenFailed == "kakao token issuance failed"
MsgKakaoError == "error while processing kakao login"

----------------------------------------------------------------------------
(* Responses *)

Json(status, body) == [kind |-> "json", status |-> status, body |-> body]

Fail(status, message) == Json(status, [success |-> FALSE, message |-> message])

Ok(data) == Json(200, [success |-> TRUE, data |-> data])

OkNoData == Json(200, [success |-> TRUE])

RedirectError(message) ==
    [kind |-> "redirect", status |-> 302,
     location |-> [path |-> "/#/login", error |-> message]]

RedirectToken(token) ==
    [kind |-> "redirect", status |-> 302,
     location |-> [path |-> "/#/kakao-callback", token |-> token]]

----------------------------------------------------------------------------
(* bcryptjs: a salted one-way hash; compare re-hashes with the hash's salt *)

Salts == {"N9qo8uLOickgx2ZMRZoMye"}

Hash(password, salt) == <<"$2a$10$", salt, password>>

\* Compare with the salt taken from the configuration, not from the hash
CompareFixedSalt(password, hashed) == hashed = Hash(password, "$2a$10$")

\* Compare that takes every password for the right one
CompareAny(password, hashed) == TRUE

Compare(password, hashed) == hashed = Hash(password, hashed[2])

\* the password column of an account without local credentials (SQL NULL)
NoHash == <<>>

----------------------------------------------------------------------------
(* jsonwebtoken: sign and verify *)

Signature(payload, iat, exp, secret) == <<"HS256", secret, payload, iat, exp>>

\* jwt.sign with expiresIn: '30d'
SignThirtyDays(payload, secret) ==
    [payload |-> payload, iat |-> now, exp |-> now + 30,
     sig |-> Signature(payload, now, now + 30, secret)]

Sign(payload, secret) ==
    [payload |-> payload, iat |-> now, exp |-> now + TokenTtlDays,
     sig |-> Signature(payload, now, now + TokenTtlDays, secret)]

\* a credential that does not parse as a JWT
Garbage == [raw |-> "garbage"]

IsJwt(cred) == DOMAIN cred = {"payload", "iat", "exp", "sig"}

\* jwt.decode in place of jwt.verify: the signature is not checked
VerifyUnsigned(cred, secret) ==
    /\ IsJwt(cred)
    /\ now < cred.exp

\* VerifyOk that also turns down a token whose nickname claim is no longer
\* the stored one (a token invalidated by a profile change)
VerifyOkIfCurrent(cred, secret) ==
    /\ IsJwt(cred)
    /\ cred.sig = Signature(cred.payload, cred.iat, cred.exp, secret)
    /\ now < cred.exp
    /\ "nickname" \in DOMAIN cred.payload =>
          \E r \in users : r.id = cred.payload.id
                           /\ r.nickname = cred.payload.nickname

\* jwt.verify: throws on a malformed token, a wrong signature, an expired token
VerifyOk(cred, secret) ==
    /\ IsJwt(cred)
    /\ cred.sig = Signature(cred.payload, cred.iat, cred.exp, secret)
    /\ now < cred.exp

\* what jwt.verify returns: the payload with iat and exp
Decoded(cred) == [claims |-> cred.payload, iat |-> cred.iat, exp |-> cred.exp]

----------------------------------------------------------------------------
(* The users table *)

Fits(v, width) == v = Null \/ Len(v) <= width

\* UsernameTaken without the UNIQUE constraint on the column
UsernameNeverTaken(username) == FALSE

UsernameTaken(username) ==
    username # Null /\ \E r \in users : r.username = username

\* KakaoIdTaken without the UNIQUE constraint on the column
KakaoIdNeverTaken(kakaoId) == FALSE

KakaoIdTaken(kakaoId) ==
    kakaoId # Null /\ \E r \in users : r.kakao_id = kakaoId

\* SQLSTATE of a statement that fails because the database cannot be
\* reached (pool.query rejects)
ConnectionFailure == "08006"

\* The result of a statement: the SQLSTATE of its error, or the rows it
\* returns, and the table and the sequence after it.
Failed(code, s) == [err |-> code, rows |-> {}, users |-> users, seq |-> s]

Done(rows, table, s) == [err |-> Null, rows |-> rows, users |-> table, seq |-> s]

\* InsertEcommerce into a table created without the UNIQUE constraints
InsertEcommerceNoUnique(username, password, nickname, email, phone, image, kakaoId, provider) ==
    LET id == seq + 1
        row == [id |-> id, username |-> username, password |-> password,
                nickname |-> nickname, email |-> email, phone |-> phone,
                profile_image |-> image, kakao_id |-> kakaoId,
                provider |-> provider, created_at |-> now]
    IN  IF nickname = Null THEN Failed("23502", id)
        ELSE IF ~ ( /\ Fits(username, UsernameWidth)
                    /\ Fits(nickname, NicknameWidth)
                    /\ Fits(email, EmailWidth)
                    /\ Fits(phone, PhoneWidth)
                    /\ Fits(kakaoId, KakaoIdWidth) ) THEN Failed("22001", id)
        ELSE Done({row}, users \cup {row}, id)

\* InsertEcommerce without the provider column in its column list: every
\* row gets the column's default
InsertEcommerceDefaultProvider(username, password, nickname, email, phone, image, kakaoId, provider) ==
    LET id == seq + 1
        row == [id |-> id, username |-> username, password |-> password,
                nickname |-> nickname, email |-> email, phone |-> phone,
                profile_image |-> image, kakao_id |-> kakaoId,
                provider |-> "local", created_at |-> now]
    IN  IF down THEN Failed(ConnectionFailure, seq)
        ELSE IF nickname = Null THEN Failed("23502", id)
        ELSE IF ~ ( /\ Fits(username, UsernameWidth)
                    /\ Fits(nickname, NicknameWidth)
                    /\ Fits(email, EmailWidth)
                    /\ Fits(phone, PhoneWidth)
                    /\ Fits(kakaoId, KakaoIdWidth) ) THEN Failed("22001", id)
        ELSE IF UsernameTaken(username) \/ KakaoIdTaken(kakaoId)
             THEN Failed("23505", id)
        ELSE Done({row}, users \cup {row}, id)

\* INSERT INTO ecommerce_01_users (...) RETURNING *
InsertEcommerce(username, password, nickname, email, phone, image, kakaoId, provider) ==
    LET id == seq + 1
        row == [id |-> id, username |-> username, password |-> password,
                nickname |-> nickname, email |-> email, phone |-> phone,
                profile_image |-> image, kakao_id |-> kakaoId,
                provider |-> provider, created_at |-> now]
    IN  IF down THEN Failed(ConnectionFailure, seq)
        ELSE IF nickname = Null THEN Failed("23502", id)
        ELSE IF ~ ( /\ Fits(username, UsernameWidth)
                    /\ Fits(nickname, NicknameWidth)
                    /\ Fits(email, EmailWidth)
                    /\ Fits(phone, PhoneWidth)
                    /\ Fits(kakaoId, KakaoIdWidth) ) THEN Failed("22001", id)
        ELSE IF UsernameTaken(username) \/ KakaoIdTaken(kakaoId)
             THEN Failed("23505", id)
        ELSE Done({row}, users \cup {row}, id)

\* INSERT INTO dangun_01_users (username, password, nickname)
\*   RETURNING id, username, nickname, location
InsertMarketplace(username, password, nickname) ==
    LET id == seq + 1
        row == [id |-> id, username |-> username, password |-> password,
                nickname |-> nickname, location |-> DefaultLocation,
                profile_image |-> Null, created_at |-> now]
    IN  IF down THEN Failed(ConnectionFailure, seq)
        ELSE IF username = Null \/ password = NoHash \/ nickname = Null
        THEN Failed("23502", id)
        ELSE IF ~ (Fits(username, UsernameWidth) /\ Fits(nickname, NicknameWidth))
             THEN Failed("22001", id)
        ELSE IF UsernameTaken(username) THEN Failed("23505", id)
        ELSE Done({[f \in {"id", "username", "nickname", "location"} |-> row[f]]},
                  users \cup {row}, id)

\* INSERT INTO todo_app_01_users (username, password) RETURNING id, username
InsertTodo(username, password) ==
    LET id == seq + 1
        row == [id |-> id, username |-> username, password |-> password,
                created_at |-> now]
    IN  IF down THEN Failed(ConnectionFailure, seq)
        ELSE IF username = Null \/ password = NoHash THEN Failed("23502", id)
        ELSE IF ~ Fits(username, UsernameWidth) THEN Failed("22001", id)
        ELSE IF UsernameTaken(username) THEN Failed("23505", id)
        ELSE Done({[f \in {"id", "username"} |-> row[f]]}, users \cup {row}, id)

\* SELECT * FROM ecommerce_01_users WHERE username = $1 AND provider = $2
SelectLocalByUsername(username) ==
    {r \in users : r.username = username /\ r.provider = "local"}

\* SELECT * FROM <users> WHERE username = $1
SelectByUsername(username) == {r \in users : r.username = username}

\* SelectById without its WHERE clause
SelectEveryId(id) == users

\* SELECT ... FROM <users> WHERE id = $1
SelectById(id) == {r \in users : r.id = id}

\* SELECT * FROM ecommerce_01_users WHERE kakao_id = $1
SelectByKakaoId(kakaoId) == {r \in users : r.kakao_id = kakaoId}

\* rows[0] of a result that holds at most one row
First(rows) == CHOOSE r \in rows : TRUE

----------------------------------------------------------------------------
(* Handler results: the response, the table and the sequence afterwards,   *)
(* and the tokens the response carries.                                    *)

Reply(res) == [res |-> res, users |-> users, seq |-> seq, issued |-> {}]

ReplyAfter(res, st, issued) ==
    [res |-> res, users |-> st.users, seq |-> st.seq, issued |-> issued]

\* generateToken (ecommerce)
generateToken(user) ==
    Sign([id |-> user.id, username |-> user.username,
          nickname |-> user.nickname, provider |-> user.provider], JWT_SECRET)

\* jwt.sign({id, username, nickname}, ...) (marketplace)
SignMarketplace(user) ==
    Sign([id |-> user.id, username |-> user.username,
          nickname |-> user.nickname], JWT_SECRET)

\* jwt.sign({id, username}, ...) (todo)
SignTodo(user) ==
    Sign([id |-> user.id, username |-> user.username], JWT_SECRET)

\* sanitizeUser returning the row as it is
sanitizeUserWhole(user) == user

sanitizeUser(user) ==
    [id |-> user.id, username |-> user.username, nickname |-> user.nickname,
     email |-> user.email, phone |-> user.phone,
     profile_image |-> user.profile_image, provider |-> user.provider,
     created_at |-> user.created_at]

----------------------------------------------------------------------------
(* POST /api/auth/register *)

RegisterEcommerce(body, salt) ==
    IF Falsy(body.username) \/ Falsy(body.password) \/ Falsy(body.nickname)
    THEN Reply(Fail(400, MsgFieldsRequired))
    ELSE IF Len(body.password) < MinPasswordLen
    THEN Reply(Fail(400, MsgPasswordTooShort))
    ELSE LET st == InsertEcommerce(body.username, Hash(body.password, salt),
                                   body.nickname, OrNull(body.email),
                                   OrNull(body.phone), Null, Null, "local")
         IN  IF st.err = "23505"
             THEN ReplyAfter(Fail(409, MsgUsernameExists), st, {})
             ELSE IF st.err # Null
             THEN ReplyAfter(Fail(500, MsgServerError), st, {})
             ELSE LET user == First(st.rows)
                      token == generateToken(user)
                  IN  ReplyAfter(Ok([token |-> token, user |-> sanitizeUser(user)]),
                                 st, {token})

\* RegisterMarketplace with the password policy of the ecommerce backend
RegisterMarketplaceMinLength(body, salt) ==
    IF Falsy(body.username) \/ Falsy(body.password) \/ Falsy(body.nickname)
    THEN Reply(Fail(400, MsgFieldsRequired))
    ELSE IF Len(body.password) < MinPasswordLen
    THEN Reply(Fail(400, MsgPasswordTooShort))
    ELSE LET st == InsertMarketplace(body.username, Hash(body.password, salt),
                                     body.nickname)
         IN  IF st.err = "23505"
             THEN ReplyAfter(Fail(409, MsgUsernameExists), st, {})
             ELSE IF st.err # Null
             THEN ReplyAfter(Fail(500, MsgServerError), st, {})
             ELSE LET user == First(st.rows)
                      token == SignMarketplace(user)
                  IN  ReplyAfter(Ok([token |-> token, user |-> user]), st, {token})

RegisterMarketplace(body, salt) ==
    IF Falsy(body.username) \/ Falsy(body.password) \/ Falsy(body.nickname)
    THEN Reply(Fail(400, MsgFieldsRequired))
    ELSE LET st == InsertMarketplace(body.username, Hash(body.password, salt),
                                     body.nickname)
         IN  IF st.err = "23505"
             THEN ReplyAfter(Fail(409, MsgUsernameExists), st, {})
             ELSE IF st.err # Null
             THEN ReplyAfter(Fail(500, MsgServerError), st, {})
             ELSE LET user == First(st.rows)
                      token == SignMarketplace(user)
                  IN  ReplyAfter(Ok([token |-> token, user |-> user]), st, {token})

RegisterTodo(body, salt) ==
    IF Falsy(body.username) \/ Falsy(body.password)
    THEN Reply(Fail(400, MsgFieldsRequiredTodo))
    ELSE LET st == InsertTodo(body.username, Hash(body.password, salt))
         IN  IF st.err = "23505"
             THEN ReplyAfter(Fail(409, MsgUsernameExistsTodo), st, {})
             ELSE IF st.err # Null
             THEN ReplyAfter(Fail(500, MsgServerErrorTodo), st, {})
             ELSE LET user == First(st.rows)
                      token == SignTodo(user)
                  IN  ReplyAfter(Ok([token |-> token,
                                     user |-> [id |-> user.id,
                                               username |-> user.username]]),
                                 st, {token})

RegisterHandler(body, salt) ==
    CASE variant = "ecommerce" -> RegisterEcommerce(body, salt)
      [] variant = "marketplace" -> RegisterMarketplace(body, salt)
      [] variant = "todo" -> RegisterTodo(body, salt)

----------------------------------------------------------------------------
(* POST /api/auth/login *)

\* LoginEcommerce telling an unknown username from a wrong password
LoginEcommerceTelling(body) ==
    IF Falsy(body.username) \/ Falsy(body.password)
    THEN Reply(Fail(400, MsgLoginFieldsRequired))
    ELSE LET rows == SelectLocalByUsername(body.username)
         IN  IF rows = {} THEN Reply(Fail(404, MsgUserNotFound))
             ELSE LET user == First(rows)
                  IN  IF ~ Compare(body.password, user.password)
                      THEN Reply(Fail(401, MsgBadCredentials))
                      ELSE LET token == generateToken(user)
                           IN  [Reply(Ok([token |-> token,
                                          user |-> sanitizeUser(user)]))
                                  EXCEPT !.issued = {token}]

LoginEcommerce(body) ==
    IF Falsy(body.username) \/ Falsy(body.password)
    THEN Reply(Fail(400, MsgLoginFieldsRequired))
    ELSE IF down THEN Reply(Fail(500, MsgServerError))
    ELSE LET rows == SelectLocalByUsername(body.username)
         IN  IF rows = {} THEN Reply(Fail(401, MsgBadCredentials))
             ELSE LET user == First(rows)
                  IN  IF user.password = NoHash  \* bcrypt.compare throws
                      THEN Reply(Fail(500, MsgServerError))
                      ELSE IF ~ Compare(body.password, user.password)
                      THEN Reply(Fail(401, MsgBadCredentials))
                      ELSE LET token == generateToken(user)
                           IN  [Reply(Ok([token |-> token,
                                          user |-> sanitizeUser(user)]))
                                  EXCEPT !.issued = {token}]

LoginMarketplace(body) ==
    IF Falsy(body.username) \/ Falsy(body.password)
    THEN Reply(Fail(400, MsgLoginFieldsRequired))
    ELSE IF down THEN Reply(Fail(500, MsgServerError))
    ELSE LET rows == SelectByUsername(body.username)
         IN  IF rows = {} THEN Reply(Fail(401, MsgBadCredentials))
             ELSE LET user == First(rows)
                  IN  IF user.password = NoHash  \* bcrypt.compare throws
                      THEN Reply(Fail(500, MsgServerError))
                      ELSE IF ~ Compare(body.password, user.password)
                      THEN Reply(Fail(401, MsgBadCredentials))
                      ELSE LET token == SignMarketplace(user)
                           IN  [Reply(Ok([token |-> token,
                                          user |-> [f \in {"id", "username", "nickname",
                                                           "location", "profile_image"}
                                                      |-> user[f]]]))
                                  EXCEPT !.issued = {token}]

LoginTodo(body) ==
    IF Falsy(body.username) \/ Falsy(body.password)
    THEN Reply(Fail(400, MsgFieldsRequiredTodo))
    ELSE IF down THEN Reply(Fail(500, MsgServerErrorTodo))
    ELSE LET rows == SelectByUsername(body.username)
         IN  IF rows = {} THEN Reply(Fail(401, MsgBadCredentialsTodo))
             ELSE LET user == First(rows)
                  IN  IF user.password = NoHash  \* bcrypt.compare throws
                      THEN Reply(Fail(500, MsgServerErrorTodo))
                      ELSE IF ~ Compare(body.password, user.password)
                      THEN Reply(Fail(401, MsgBadCredentialsTodo))
                      ELSE LET token == SignTodo(user)
                           IN  [Reply(Ok([token |-> token,
                                          user |-> [id |-> user.id,
                                                    username |-> user.username]]))
                                  EXCEPT !.issued = {token}]

LoginHandler(body) ==
    CASE variant = "ecommerce" -> LoginEcommerce(body)
      [] variant = "marketplace" -> LoginMarketplace(body)
      [] variant = "todo" -> LoginTodo(body)

----------------------------------------------------------------------------
(* The auth middleware.  A header is the list of its space-separated words; *)
(* <<>> is a request without the header.                                   *)

NoHeader == <<>>

StartsWithBearer(header) == Len(header) >= 2 /\ header[1] = "Bearer"

\* auth(req, res, next): the response it sends itself, or "next" with req.user
auth(header) ==
    IF header = NoHeader \/ ~ StartsWithBearer(header)
    THEN [next |-> FALSE,
          res |-> Fail(401, IF variant = "todo" THEN MsgTokenRequired
                            ELSE MsgLoginRequired)]
    ELSE IF ~ VerifyOk(header[2], JWT_SECRET)
    THEN [next |-> FALSE,
          res |-> Fail(401, IF variant = "todo" THEN MsgInvalidTokenTodo
                            ELSE MsgInvalidToken)]
    ELSE [next |-> TRUE, user |-> Decoded(header[2])]

----------------------------------------------------------------------------
(* GET /api/auth/me *)

\* MeEcommerce answering from the claims of the token
MeEcommerceFromToken(reqUser) == Reply(Ok(reqUser.claims))

MeEcommerce(reqUser) ==
    LET rows == SelectById(reqUser.claims.id)
    IN  IF down THEN Reply(Fail(500, MsgServerError))
        ELSE IF rows = {} THEN Reply(Fail(404, MsgUserNotFound))
        ELSE Reply(Ok(sanitizeUser(First(rows))))

MeMarketplace(reqUser) ==
    LET rows == SelectById(reqUser.claims.id)
    IN  IF down THEN Reply(Fail(500, MsgServerError))
        ELSE IF rows = {} THEN Reply(Fail(404, MsgUserNotFound))
        ELSE Reply(Ok([f \in {"id", "username", "nickname", "location",
                              "profile_image", "created_at"} |-> First(rows)[f]]))

MeHandler(header) ==
    LET gate == auth(header)
    IN  IF ~ gate.next THEN Reply(gate.res)
        ELSE IF variant = "ecommerce" THEN MeEcommerce(gate.user)
        ELSE MeMarketplace(gate.user)

----------------------------------------------------------------------------
(* PUT /api/auth/profile *)

\* UPDATE ecommerce_01_users SET nickname = COALESCE($1, nickname),
\*   email = COALESCE($2, email), phone = COALESCE($3, phone)
\*   WHERE id = $4 RETURNING *
UpdateProfileEcommerce(nickname, email, phone, id) ==
    LET new(r) == [r EXCEPT !.nickname = Coalesce(nickname, r.nickname),
                            !.email = Coalesce(email, r.email),
                            !.phone = Coalesce(phone, r.phone)]
        hit == SelectById(id)
    IN  IF down THEN Failed(ConnectionFailure, seq)
        ELSE IF \E r \in hit : ~ ( /\ Fits(new(r).nickname, NicknameWidth)
                             /\ Fits(new(r).email, EmailWidth)
                             /\ Fits(new(r).phone, PhoneWidth) )
        THEN Failed("22001", seq)
        ELSE Done({new(r) : r \in hit},
                  (users \ hit) \cup {new(r) : r \in hit}, seq)

\* UPDATE dangun_01_users SET nickname = COALESCE($1, nickname),
\*   location = COALESCE($2, location) WHERE id = $3
\*   RETURNING id, username, nickname, location, profile_image
UpdateProfileMarketplace(nickname, location, id) ==
    LET new(r) == [r EXCEPT !.nickname = Coalesce(nickname, r.nickname),
                            !.location = Coalesce(location, r.location)]
        hit == SelectById(id)
    IN  IF down THEN Failed(ConnectionFailure, seq)
        ELSE IF \E r \in hit : ~ ( /\ Fits(new(r).nickname, NicknameWidth)
                             /\ Fits(new(r).location, LocationWidth) )
        THEN Failed("22001", seq)
        ELSE Done({[f \in {"id", "username", "nickname", "location",
                           "profile_image"} |-> new(r)[f]] : r \in hit},
                  (users \ hit) \cup {new(r) : r \in hit}, seq)

\* ProfileEcommerce whose catch block sends the error it caught
ProfileEcommerceLeaky(reqUser, body) ==
    LET st == UpdateProfileEcommerce(body.nickname, body.email, body.phone,
                                     reqUser.claims.id)
    IN  IF st.err # Null THEN ReplyAfter(Fail(500, st.err), st, {})
        ELSE IF st.rows = {}
        THEN ReplyAfter(Fail(500, "Cannot destructure property of undefined"),
                        st, {})
        ELSE ReplyAfter(Ok(sanitizeUser(First(st.rows))), st, {})

ProfileEcommerce(reqUser, body) ==
    LET st == UpdateProfileEcommerce(body.nickname, body.email, body.phone,
                                     reqUser.claims.id)
    IN  IF st.err # Null THEN ReplyAfter(Fail(500, MsgServerError), st, {})
        ELSE IF st.rows = {}  \* sanitizeUser(undefined) throws
        THEN ReplyAfter(Fail(500, MsgServerError), st, {})
        ELSE ReplyAfter(Ok(sanitizeUser(First(st.rows))), st, {})

ProfileMarketplace(reqUser, body) ==
    LET st == UpdateProfileMarketplace(body.nickname, body.location,
                                       reqUser.claims.id)
    IN  IF st.err # Null THEN ReplyAfter(Fail(500, MsgServerError), st, {})
        ELSE IF st.rows = {}  \* data: undefined is dropped from the JSON
        THEN ReplyAfter(OkNoData, st, {})
        ELSE ReplyAfter(Ok(First(st.rows)), st, {})

ProfileHandler(header, body) ==
    LET gate == auth(header)
    IN  IF ~ gate.next THEN Reply(gate.res)
        ELSE IF variant = "ecommerce" THEN ProfileEcommerce(gate.user, body)
        ELSE ProfileMarketplace(gate.user, body)

----------------------------------------------------------------------------
(* GET /api/auth/kakao/callback (ecommerce).  The two calls to the identity *)
(* provider are inputs: what the code exchange answers and what the        *)
(* profile request answers (throws: fetch or res.json() rejects).          *)

\* KakaoIdOf keeping a missing id missing (kakaoUser.id ?? null)
KakaoIdOrNull(profile) ==
    IF "id" \in DOMAIN profile THEN ToString(profile.id) ELSE Null

\* String(kakaoUser.id)
KakaoIdOf(profile) ==
    IF "id" \in DOMAIN profile THEN ToString(profile.id) ELSE "undefined"

\* UpdateKakaoUser without its WHERE clause: every row is updated
UpdateKakaoUserEveryRow(nickname, image, email, kakaoId) ==
    LET new(r) == [r EXCEPT !.nickname = nickname,
                            !.profile_image = Coalesce(image, r.profile_image),
                            !.email = Coalesce(email, r.email)]
        hit == users
    IN  IF nickname = Null THEN Failed("23502", seq)
        ELSE IF \E r \in hit : ~ ( /\ Fits(new(r).nickname, NicknameWidth)
                                  /\ Fits(new(r).email, EmailWidth) )
        THEN Failed("22001", seq)
        ELSE Done({new(r) : r \in hit},
                  (users \ hit) \cup {new(r) : r \in hit}, seq)

\* UpdateKakaoUser done as DELETE and INSERT: the row gets a new id
UpdateKakaoUserReplacing(nickname, image, email, kakaoId) ==
    LET new(r) == [r EXCEPT !.id = seq + 1,
                            !.nickname = nickname,
                            !.profile_image = Coalesce(image, r.profile_image),
                            !.email = Coalesce(email, r.email)]
        hit == SelectByKakaoId(kakaoId)
    IN  IF down THEN Failed(ConnectionFailure, seq)
        ELSE IF nickname = Null THEN Failed("23502", seq)
        ELSE IF \E r \in hit : ~ ( /\ Fits(new(r).nickname, NicknameWidth)
                                  /\ Fits(new(r).email, EmailWidth) )
        THEN Failed("22001", seq)
        ELSE Done({new(r) : r \in hit},
                  (users \ hit) \cup {new(r) : r \in hit}, seq + 1)

\* UpdateKakaoUser that leaves the stored nickname alone
UpdateKakaoUserKeepingNickname(nickname, image, email, kakaoId) ==
    LET new(r) == [r EXCEPT !.profile_image = Coalesce(image, r.profile_image),
                            !.email = Coalesce(email, r.email)]
        hit == SelectByKakaoId(kakaoId)
    IN  IF down THEN Failed(ConnectionFailure, seq)
        ELSE IF nickname = Null THEN Failed("23502", seq)
        ELSE IF \E r \in hit : ~ ( /\ Fits(new(r).nickname, NicknameWidth)
                                  /\ Fits(new(r).email, EmailWidth) )
        THEN Failed("22001", seq)
        ELSE Done({new(r) : r \in hit},
                  (users \ hit) \cup {new(r) : r \in hit}, seq)

\* UPDATE ecommerce_01_users SET nickname = $1,
\*   profile_image = COALESCE($2, profile_image), email = COALESCE($3, email)
\*   WHERE kakao_id = $4 RETURNING *
UpdateKakaoUser(nickname, image, email, kakaoId) ==
    LET new(r) == [r EXCEPT !.nickname = nickname,
                            !.profile_image = Coalesce(image, r.profile_image),
                            !.email = Coalesce(email, r.email)]
        hit == SelectByKakaoId(kakaoId)
    IN  IF down THEN Failed(ConnectionFailure, seq)
        ELSE IF nickname = Null THEN Failed("23502", seq)
        ELSE IF \E r \in hit : ~ ( /\ Fits(new(r).nickname, NicknameWidth)
                                  /\ Fits(new(r).email, EmailWidth) )
        THEN Failed("22001", seq)
        ELSE Done({new(r) : r \in hit},
                  (users \ hit) \cup {new(r) : r \in hit}, seq)

KakaoCallbackHandler(code, exchange, profile) ==
    IF Falsy(code) THEN Reply(RedirectError(MsgKakaoAuthFailed))
    ELSE IF exchange.throws THEN Reply(RedirectError(MsgKakaoError))
    ELSE IF Falsy(exchange.access_token)
    THEN Reply(RedirectError(IF Falsy(exchange.error_description)
                             THEN MsgKakaoTokenFailed
                             ELSE exchange.error_description))
    ELSE IF profile.throws THEN Reply(RedirectError(MsgKakaoError))
    ELSE LET kakaoId == KakaoIdOf(profile)
             kakaoNickname == IF Falsy(profile.nickname)
                              THEN KakaoFallbackNickname ELSE profile.nickname
             kakaoEmail == OrNull(profile.email)
             kakaoProfileImage == OrNull(profile.profile_image)
             st == IF down THEN Failed(ConnectionFailure, seq)
                   ELSE IF SelectByKakaoId(kakaoId) # {}
                   THEN UpdateKakaoUser(kakaoNickname, kakaoProfileImage,
                                        kakaoEmail, kakaoId)
                   ELSE InsertEcommerce(Null, NoHash, kakaoNickname, kakaoEmail,
                                        Null, kakaoProfileImage, kakaoId, "kakao")
         IN  IF st.err # Null
             THEN ReplyAfter(RedirectError(MsgKakaoError), st, {})
             ELSE LET jwtToken == generateToken(First(st.rows))
                  IN  ReplyAfter(RedirectToken(jwtToken), st, {jwtToken})

----------------------------------------------------------------------------
(* The requests clients send *)

\* a string of 51 characters: one more than the username and nickname columns hold
Long51 == "abcdefghijabcdefghijabcdefghijabcdefghijabcdefghijk"

RegisterBody(u, p, n, e, ph) ==
    [username |-> u, password |-> p, nickname |-> n, email |-> e, phone |-> ph]

RegisterBodies ==
    {RegisterBody("alice", "secret1", "A", "e1", "p1"),
     RegisterBody("bob", "hunter22", "A", Null, ""),
     RegisterBody("bob", "hunter22", "A", Null, "+82-10-1234-5678-9012")}
    \cup {RegisterBody(u, "secret1", "A", Null, Null) : u \in {Long51, "", Null}}
    \cup {RegisterBody("alice", p, "A", Null, Null) : p \in {"abc", "", Null}}
    \cup {RegisterBody("alice", "secret1", n, Null, Null) : n \in {"", Null, Long51}}

LoginBody(u, p) == [username |-> u, password |-> p]

LoginBodies ==
    {LoginBody(u, p) : u \in {"alice", "bob"}, p \in {"secret1", "hunter22", "abc"}}
    \cup {LoginBody("carol", "secret1"), LoginBody(Null, "secret1"),
          LoginBody("alice", Null), LoginBody("", "secret1"), LoginBody("alice", "")}

AttackerSecret == "another-secret"

\* a token an attacker signs with a secret of their own
Forged(id) ==
    Sign([id |-> id, username |-> "alice", nickname |-> "A", provider |-> "local"],
         AttackerSecret)

\* a kept token whose payload was rewritten to another id, signature kept
Tampered(token) ==
    [token EXCEPT !.payload.id = IF token.payload.id = 1 THEN 2 ELSE 1]

\* headers the gate has to turn down whatever the clock says
BadHeaders ==
    {NoHeader, <<"Bearer">>, <<"Basic", Garbage>>, <<"Bearer", Garbage>>}
    \cup {<<"Bearer", Forged(id)>> : id \in 1 .. MaxSeq}
    \cup {<<"bearer", t>> : t \in held}
    \cup {<<"Bearer", Tampered(t)>> : t \in held}

Headers == BadHeaders \cup {<<"Bearer", t>> : t \in held}

ProfileBody(n, e, ph, loc) ==
    [nickname |-> n, email |-> e, phone |-> ph, location |-> loc]

ProfileBodies ==
    IF variant = "ecommerce"
    THEN {ProfileBody("X", Null, Null, Null), ProfileBody(Null, "e2", "p2", Null),
          ProfileBody(Null, Null, Null, Null), ProfileBody(Long51, "e2", Null, Null)}
    ELSE {ProfileBody("X", Null, Null, Null), ProfileBody(Null, Null, Null, "Busan"),
          ProfileBody(Null, Null, Null, Null), ProfileBody(Long51, Null, Null, "Busan")}

\* the exchange that answers with an access token
GoodExchange ==
    [throws |-> FALSE, access_token |-> "access-token", error_description |-> Null]

Exchanges ==
    {[throws |-> TRUE, access_token |-> Null, error_description |-> Null],
     [throws |-> FALSE, access_token |-> Null, error_description |-> Null],
     [throws |-> FALSE, access_token |-> Null,
      error_description |-> "authorization code not found"],
     GoodExchange}

KakaoProfile(n, e, img) ==
    [throws |-> FALSE, nickname |-> n, email |-> e, profile_image |-> img]

KakaoProfiles ==
    {[throws |-> TRUE, nickname |-> Null, email |-> Null, profile_image |-> Null],
     KakaoProfile(Null, Null, Null),  \* an error answer: a JSON without id
     [id |-> 1001] @@ KakaoProfile("K", Null, Null),
     [id |-> 1001] @@ KakaoProfile(Null, "e1", "i1"),
     [id |-> 1001] @@ KakaoProfile(Long51, Null, Null),
     [id |-> 1002] @@ KakaoProfile("K", Null, Null)}

\* a callback without a code; with a code the exchange turns down (the
\* profile is then never asked for); with a code, a token and each profile
KakaoRequests ==
    {[code |-> Null, exchange |-> GoodExchange,
      profile |-> [id |-> 1001] @@ KakaoProfile("K", Null, Null)]}
    \cup {[code |-> "code", exchange |-> x,
           profile |-> [id |-> 1001] @@ KakaoProfile("K", Null, Null)] :
             x \in Exchanges \ {GoodExchange}}
    \cup {[code |-> "code", exchange |-> GoodExchange, profile |-> pr] :
             pr \in KakaoProfiles}

----------------------------------------------------------------------------
(* Actions: one per request handled *)

\* the token a response carries, as a set
TokenOf(res) ==
    IF res.kind = "json" /\ res.status = 200 /\ "data" \in DOMAIN res.body
       /\ "token" \in DOMAIN res.body.data
    THEN {res.body.data.token}
    ELSE IF res.kind = "redirect" /\ "token" \in DOMAIN res.location
    THEN {res.location.token}
    ELSE {}

\* the message of a failure response, "" for a success
MessageOf(res) ==
    IF res.kind = "json"
    THEN IF "message" \in DOMAIN res.body THEN res.body.message ELSE ""
    ELSE IF "error" \in DOMAIN res.location THEN res.location.error ELSE ""

\* let dbInitialized = false, with what the model keeps beside the flag:
\* ready    - dbInitialized (marketplace, ecommerce), app.listen called (todo)
\* creates  - how many times initDB has run its first CREATE TABLE
\* complete - every statement of initDB has succeeded at some time
\* exited   - process.exit(1)
Fresh == [ready |-> FALSE, creates |-> 0, complete |-> FALSE, exited |-> FALSE]

\* the tables created once: initDB().then(() => app.listen(...)) of the
\* todo server, which takes requests only from then on; dbInitialized = true
\* of the others, after their first request
TablesReady == [ready |-> TRUE, creates |-> 1, complete |-> TRUE, exited |-> FALSE]

MsgInitFailed == "Database initialization failed"

\* the /api middleware's answer when initDB rejects
InitFailed == Fail(500, MsgInitFailed)

\* await initDB() of a request that has the database to itself
initDB ==
    IF db.ready THEN [ok |-> TRUE, db |-> db]
    ELSE IF down THEN [ok |-> FALSE, db |-> db]
    ELSE [ok |-> TRUE, db |-> [db EXCEPT !.ready = TRUE, !.creates = @ + 1,
                                         !.complete = TRUE]]

\* a started server with no rows
Started(d) ==
    /\ variant \in Variants
    /\ users = {}
    /\ seq = 0
    /\ now = 0
    /\ held = {}
    /\ last = [op |-> "none", status |-> 0, message |-> "", known |-> FALSE]
    /\ registered = {}
    /\ inflight = [p \in Procs |-> Idle]
    /\ products = {}
    /\ pseq = 0
    /\ todos = {}
    /\ tseq = 0
    /\ down = FALSE
    /\ db = d

Init == Started(IF variant = "todo" THEN TablesReady ELSE Fresh)

\* The handler's result becomes the state; the browser may store the token
\* of the response in place of the one it holds (localStorage.setItem) to
\* send it with later requests.
\* `known`: whether the row the request names (by username, by the id of
\* its token, by the provider's id) was in the table when it arrived.
\* The request passes the /api middleware first: the first request has the
\* tables created, and a request whose initDB rejects never reaches `out`.
Handle(op, known, out) ==
    LET mw == initDB
    IN  IF mw.ok
        THEN /\ out.seq <= MaxSeq
             /\ users' = out.users
             /\ seq' = out.seq
             /\ last' = [op |-> op, status |-> out.res.status,
                         message |-> MessageOf(out.res), known |-> known]
             /\ held' \in {held} \cup {{t} : t \in out.issued}
             /\ db' = mw.db
             /\ UNCHANGED <<variant, now, inflight, products, pseq, todos, tseq,
                            down>>
        ELSE /\ last' = [op |-> op, status |-> InitFailed.status,
                         message |-> MessageOf(InitFailed), known |-> known]
             /\ UNCHANGED <<variant, users, seq, now, held, registered,
                            inflight, products, pseq, todos, tseq, down, db>>

\* the row a credential names, if the gate lets it through
Bearer(header) ==
    IF auth(header).next THEN SelectById(auth(header).user.claims.id) ELSE {}

RegisterOf(bodies) ==
    \E body \in bodies, salt \in Salts :
        LET out == RegisterHandler(body, salt)
        IN  /\ Handle("register", UsernameTaken(body.username), out)
            /\ registered' = registered \cup
                  {[username |-> body.username, password |-> body.password,
                    id |-> t.payload.id] : t \in out.issued}

LoginOf(bodies) ==
    /\ \E body \in bodies :
          Handle("login", UsernameTaken(body.username), LoginHandler(body))
    /\ UNCHANGED registered

MeOf(headers) ==
    /\ variant # "todo"
    /\ \E header \in headers :
          Handle("me", Bearer(header) # {}, MeHandler(header))
    /\ UNCHANGED registered

ProfileOf(headers, bodies) ==
    /\ variant # "todo"
    /\ \E header \in headers, body \in bodies :
          Handle("profile", Bearer(header) # {}, ProfileHandler(header, body))
    /\ UNCHANGED registered

KakaoCallbackOf(requests) ==
    /\ variant = "ecommerce"
    /\ \E r \in requests :
          Handle("kakao", SelectByKakaoId(KakaoIdOf(r.profile)) # {},
                 KakaoCallbackHandler(r.code, r.exchange, r.profile))
    /\ UNCHANGED registered

Register == RegisterOf(RegisterBodies)

Login == LoginOf(LoginBodies)

Me == MeOf(Headers)

Profile == ProfileOf(Headers, ProfileBodies)

KakaoCallback == KakaoCallbackOf(KakaoRequests)

\* a day passes
Tick ==
    /\ now < MaxDay
    /\ now' = now + 1
    /\ UNCHANGED <<variant, users, seq, held, last, registered,
                   inflight, products, pseq, todos, tseq, down, db>>

Next == Register \/ Login \/ Me \/ Profile \/ KakaoCallback

Spec == Init /\ [][Next]_vars

----------------------------------------------------------------------------
(* The same handlers with the clock running: one account per way of       *)
(* getting a token, and the days passing between the requests.            *)

ClockRegister ==
    RegisterOf({RegisterBody("alice", "secret1", "A", "e1", "p1")})

ClockLogin == LoginOf({LoginBody("alice", "secret1")})

ClockKakaoCallback ==
    KakaoCallbackOf({[code |-> "code", exchange |-> GoodExchange,
                      profile |-> [id |-> 1001] @@ KakaoProfile("K", Null, Null)]})

ClockMe == MeOf({<<"Bearer", t>> : t \in held})

NextClock ==
    ClockRegister \/ ClockLogin \/ ClockKakaoCallback \/ ClockMe \/ Tick

SpecClock == Init /\ [][NextClock]_vars

----------------------------------------------------------------------------
(* The two backends without OAuth, on their own *)

InitPlain == Init /\ variant # "ecommerce"

NextPlain == Register \/ Login \/ Me \/ Profile

SpecPlain == InitPlain /\ [][NextPlain]_vars

----------------------------------------------------------------------------
(* Requests handled step by step (ecommerce).  Node runs a handler up to   *)
(* its next await and may then run a step of another request; a statement  *)
(* is executed by the database in one piece.  Each connection sends one    *)
(* request.  The response is built from the result of the last statement   *)
(* alone, so it is part of that statement's step.                          *)

ConcRegisterBodies ==
    {RegisterBody("alice", "secret1", "A", "e1", "p1"),
     RegisterBody("alice", "hunter22", "B", Null, Null),
     RegisterBody("bob", "hunter22", "A", Null, Null),
     RegisterBody("alice", "abc", "A", Null, Null)}

ConcExchanges ==
    {GoodExchange,
     [throws |-> FALSE, access_token |-> Null, error_description |-> Null]}

ConcProfiles ==
    {[throws |-> TRUE, nickname |-> Null, email |-> Null, profile_image |-> Null],
     [id |-> 1001] @@ KakaoProfile("K", Null, Null),
     [id |-> 1001] @@ KakaoProfile(Null, "e1", "i1"),
     [id |-> 1002] @@ KakaoProfile("K", Null, Null)}

\* what a step leaves alone besides the table and the connections
ConcFrame ==
    UNCHANGED <<variant, now, held, last, products, pseq, todos, tseq, down, db>>

\* a register request in flight; fresh: its username was in no row when it came
RegisterRequest(body, pc, status, tokenId) ==
    [op |-> "register", pc |-> pc, body |-> body,
     fresh |-> ~ UsernameTaken(body.username),
     status |-> status, tokenId |-> tokenId]

\* register to its first await: the validation, then bcrypt.hash
RegStart(p) ==
    /\ inflight[p] = Idle
    /\ \E body \in ConcRegisterBodies :
          inflight' = [inflight EXCEPT ![p] =
              IF Falsy(body.username) \/ Falsy(body.password) \/ Falsy(body.nickname)
              THEN RegisterRequest(body, "done", 400, 0)
              ELSE IF Len(body.password) < MinPasswordLen
              THEN RegisterRequest(body, "done", 400, 0)
              ELSE RegisterRequest(body, "hashed", 0, 0)]
    /\ UNCHANGED <<users, seq, registered>>
    /\ ConcFrame

\* the INSERT of register, and the response
RegInsert(p) ==
    /\ inflight[p].op = "register" /\ inflight[p].pc = "hashed"
    /\ \E salt \in Salts :
          LET body == inflight[p].body
              st == InsertEcommerce(body.username, Hash(body.password, salt),
                                    body.nickname, OrNull(body.email),
                                    OrNull(body.phone), Null, Null, "local")
              status == IF st.err = "23505" THEN 409
                        ELSE IF st.err # Null THEN 500 ELSE 200
              tokenId == IF st.err = Null
                         THEN generateToken(First(st.rows)).payload.id ELSE 0
          IN  /\ st.seq <= MaxSeq
              /\ users' = st.users
              /\ seq' = st.seq
              /\ inflight' = [inflight EXCEPT ![p] =
                    [@ EXCEPT !.pc = "done", !.status = status, !.tokenId = tokenId]]
              /\ registered' =
                    IF st.err = Null
                    THEN registered \cup {[username |-> body.username,
                                           password |-> body.password,
                                           id |-> tokenId]}
                    ELSE registered
    /\ ConcFrame

\* a callback in flight: what it has learnt so far, and how it ended
\* (ok: the success redirect; tokenId: the id in the token it carries)
CallbackRequest(pc, kakaoId, nickname, email, image, found, ok, tokenId) ==
    [op |-> "kakao", pc |-> pc, kakaoId |-> kakaoId, nickname |-> nickname,
     email |-> email, image |-> image, found |-> found,
     ok |-> ok, tokenId |-> tokenId, calls |-> <<>>]

\* a callback that ended in the error redirect
CallbackFailed == CallbackRequest("done", Null, Null, Null, Null, FALSE, FALSE, 0)

\* the awaited calls of a callback so far (fetch to the token endpoint,
\* fetch to the profile endpoint, pool.query), each with whether it
\* answered what the handler goes on with
Called(calls, call, ok) == Append(calls, [call |-> call, ok |-> ok])

\* the callback to its first await: the code, then the exchange request
CbStart(p) ==
    /\ inflight[p] = Idle
    /\ \E code \in {Null, "code"} :
          inflight' = [inflight EXCEPT ![p] =
              IF Falsy(code) THEN CallbackFailed
              ELSE CallbackRequest("exchange", Null, Null, Null, Null,
                                   FALSE, FALSE, 0)]
    /\ UNCHANGED <<users, seq, registered>>
    /\ ConcFrame

\* CbExchange asking again when the exchange is turned down
CbExchangeRetrying(p) ==
    /\ inflight[p].op = "kakao" /\ inflight[p].pc = "exchange"
    /\ Len(inflight[p].calls) < 2
    /\ \E x \in ConcExchanges :
          inflight' = [inflight EXCEPT ![p] =
              IF x.throws \/ Falsy(x.access_token)
              THEN [@ EXCEPT !.calls = Called(@, "exchange", FALSE)]
              ELSE [@ EXCEPT !.pc = "profile",
                             !.calls = Called(@, "exchange", TRUE)]]
    /\ UNCHANGED <<users, seq, registered>>
    /\ ConcFrame

\* the exchange answers; then the profile request
CbExchange(p) ==
    /\ inflight[p].op = "kakao" /\ inflight[p].pc = "exchange"
    /\ \E x \in ConcExchanges :
          inflight' = [inflight EXCEPT ![p] =
              IF x.throws \/ Falsy(x.access_token)
              THEN [CallbackFailed EXCEPT
                       !.calls = Called(inflight[p].calls, "exchange", FALSE)]
              ELSE [@ EXCEPT !.pc = "profile",
                             !.calls = Called(@, "exchange", TRUE)]]
    /\ UNCHANGED <<users, seq, registered>>
    /\ ConcFrame

\* the profile answers; then the SELECT by kakao_id
CbProfile(p) ==
    /\ inflight[p].op = "kakao" /\ inflight[p].pc = "profile"
    /\ \E profile \in ConcProfiles :
          inflight' = [inflight EXCEPT ![p] =
              IF profile.throws
              THEN [CallbackFailed EXCEPT
                       !.calls = Called(inflight[p].calls, "profile", FALSE)]
              ELSE [CallbackRequest("select", KakaoIdOf(profile),
                                    IF Falsy(profile.nickname)
                                    THEN KakaoFallbackNickname ELSE profile.nickname,
                                    OrNull(profile.email),
                                    OrNull(profile.profile_image), FALSE, FALSE, 0)
                       EXCEPT !.calls = Called(inflight[p].calls, "profile", TRUE)]]
    /\ UNCHANGED <<users, seq, registered>>
    /\ ConcFrame

\* the SELECT by kakao_id; then the UPDATE or the INSERT
CbSelect(p) ==
    /\ inflight[p].op = "kakao" /\ inflight[p].pc = "select"
    /\ inflight' = [inflight EXCEPT ![p] =
          IF down THEN [@ EXCEPT !.pc = "done", !.ok = FALSE,
                                 !.calls = Called(@, "select", FALSE)]
          ELSE [@ EXCEPT !.pc = "write",
                         !.found = SelectByKakaoId(inflight[p].kakaoId) # {},
                         !.calls = Called(@, "select", TRUE)]]
    /\ UNCHANGED <<users, seq, registered>>
    /\ ConcFrame

\* the UPDATE or the INSERT the SELECT decided on, and the response
CbWrite(p) ==
    /\ inflight[p].op = "kakao" /\ inflight[p].pc = "write"
    /\ LET r == inflight[p]
           st == IF r.found
                 THEN UpdateKakaoUser(r.nickname, r.image, r.email, r.kakaoId)
                 ELSE InsertEcommerce(Null, NoHash, r.nickname, r.email, Null,
                                      r.image, r.kakaoId, "kakao")
       IN  /\ st.seq <= MaxSeq
           /\ users' = st.users
           /\ seq' = st.seq
           /\ inflight' = [inflight EXCEPT ![p] =
                 IF st.err # Null \/ st.rows = {}
                 THEN [@ EXCEPT !.pc = "done", !.ok = FALSE,
                                !.calls = Called(@, "write", st.err = Null)]
                 ELSE [@ EXCEPT !.pc = "done", !.ok = TRUE,
                                !.calls = Called(@, "write", TRUE),
                                !.tokenId = generateToken(First(st.rows)).payload.id]]
    /\ UNCHANGED registered
    /\ ConcFrame

\* an earlier request has had the tables created
InitConc == Started(TablesReady) /\ variant = "ecommerce"

NextConc ==
    \E p \in Procs :
        \/ RegStart(p) \/ RegInsert(p)
        \/ CbStart(p) \/ CbExchange(p) \/ CbProfile(p) \/ CbSelect(p) \/ CbWrite(p)

SpecConc == InitConc /\ [][NextConc]_vars

----------------------------------------------------------------------------
(* The handlers next to someone who deletes rows in the database itself:   *)
(* no route deletes a user, but the schema provides for it (ON DELETE       *)
(* CASCADE) and /me has an answer for it.                                   *)

\* DELETE FROM <users> WHERE id = ..., run outside the application
RowGone ==
    /\ \E r \in users :
          /\ users' = users \ {r}
          /\ products' = {p \in products : p.user_id # r.id}
          /\ todos' = {t \in todos : t.user_id # r.id}
    /\ UNCHANGED <<variant, seq, now, held, last, registered, inflight, pseq, tseq,
                   down, db>>

GoneRegister ==
    RegisterOf({RegisterBody("alice", "secret1", "A", "e1", "p1"),
                RegisterBody("bob", "hunter22", "A", Null, Null)})

GoneLogin == LoginOf({LoginBody("alice", "secret1")})

GoneKakaoCallback == ClockKakaoCallback

GoneMe == ClockMe

GoneProfile == ProfileOf({<<"Bearer", t>> : t \in held}, ProfileBodies)

NextGone ==
    \/ GoneRegister \/ GoneLogin \/ GoneKakaoCallback \/ GoneMe \/ GoneProfile
    \/ RowGone

SpecGone == Init /\ [][NextGone]_vars

----------------------------------------------------------------------------
(* The products of the marketplace: POST, PUT and DELETE /api/products.    *)

TitleWidth == 100
CategoryWidth == 50
StatusWidth == 20

MsgTitlePriceRequired == "title and price required"
MsgProductNotFound == "product not found"
MsgNoEditRight == "no right to edit"
MsgNoDeleteRight == "no right to delete"
MsgDeleted == "deleted"

DefaultCategory == "etc"
DefaultStatus == "selling"

\* a title of 101 characters
Long101 ==
    "abcdefghijabcdefghijabcdefghijabcdefghijabcdefghijabcdefghijabcdefghijabcdefghijabcdefghijabcdefghijk"

\* req.params.id is text; the statement's $1 is read as an integer
ParamIds == {ToString(i) : i \in 1 .. MaxProducts + 1} \cup {"abc"}

IsInteger(text) == \E i \in 0 .. MaxProducts + 1 : ToString(i) = text

ParseInteger(text) == CHOOSE i \in 0 .. MaxProducts + 1 : ToString(i) = text

\* the result of a statement on the products table
ProductFailed(code, s) == [err |-> code, rows |-> {}, products |-> products, pseq |-> s]

ProductDone(rows, table, s) == [err |-> Null, rows |-> rows, products |-> table, pseq |-> s]

ProductReply(res, st) == [res |-> res, products |-> st.products, pseq |-> st.pseq]

ProductUntouched(res) == [res |-> res, products |-> products, pseq |-> pseq]

\* INSERT INTO dangun_01_products (...) VALUES (...) RETURNING *
InsertProduct(userId, title, description, price, category, images) ==
    LET id == pseq + 1
        row == [id |-> id, user_id |-> userId, title |-> title,
                description |-> description, price |-> price,
                category |-> category, status |-> DefaultStatus,
                images |-> images, created_at |-> now, updated_at |-> now]
    IN  IF down THEN ProductFailed(ConnectionFailure, pseq)
        ELSE IF ~ ( /\ Fits(title, TitleWidth) /\ Fits(category, CategoryWidth) )
        THEN ProductFailed("22001", id)
        ELSE IF \A u \in users : u.id # userId
        THEN ProductFailed("23503", id)
        ELSE ProductDone({row}, products \cup {row}, id)

\* SELECT user_id FROM dangun_01_products WHERE id = $1
SelectProductOwner(param) ==
    IF down THEN ProductFailed(ConnectionFailure, pseq)
    ELSE IF ~ IsInteger(param) THEN ProductFailed("22P02", pseq)
    ELSE ProductDone({[user_id |-> r.user_id] :
                         r \in {q \in products : q.id = ParseInteger(param)}},
                     products, pseq)

\* UPDATE dangun_01_products SET c = COALESCE($n, c), ... WHERE id = $7
UpdateProduct(param, body) ==
    LET price(r) == IF "price" \in DOMAIN body THEN body.price ELSE r.price
        new(r) == [r EXCEPT !.title = Coalesce(body.title, r.title),
                            !.description = Coalesce(body.description, r.description),
                            !.price = price(r),
                            !.category = Coalesce(body.category, r.category),
                            !.status = Coalesce(body.status, r.status),
                            !.images = Coalesce(OrNull(body.images), r.images),
                            !.updated_at = now]
        hit == {r \in products : r.id = ParseInteger(param)}
    IN  IF down THEN ProductFailed(ConnectionFailure, pseq)
        ELSE IF \E r \in hit : ~ ( /\ Fits(new(r).title, TitleWidth)
                             /\ Fits(new(r).category, CategoryWidth)
                             /\ Fits(new(r).status, StatusWidth) )
        THEN ProductFailed("22001", pseq)
        ELSE ProductDone({new(r) : r \in hit},
                         (products \ hit) \cup {new(r) : r \in hit}, pseq)

\* DELETE FROM dangun_01_products WHERE id = $1
DeleteProduct(param) ==
    ProductDone({}, {r \in products : r.id # ParseInteger(param)}, pseq)

\* the owner test with every caller taken for the owner
IsOwnerAnyone(row, reqUser) == TRUE

\* check.rows[0].user_id !== req.user.id, negated
IsOwner(row, reqUser) == row.user_id = reqUser.claims.id

\* app.post('/api/products', auth, ...)
CreateProductHandler(header, body) ==
    LET gate == auth(header)
    IN  IF ~ gate.next THEN ProductUntouched(gate.res)
        ELSE IF Falsy(body.title) \/ "price" \notin DOMAIN body
        THEN ProductUntouched(Fail(400, MsgTitlePriceRequired))
        ELSE LET st == InsertProduct(gate.user.claims.id, body.title,
                           IF Falsy(body.description) THEN "" ELSE body.description,
                           body.price,
                           IF Falsy(body.category) THEN DefaultCategory
                           ELSE body.category,
                           IF Falsy(body.images) THEN "[]" ELSE body.images)
             IN  IF st.err # Null THEN ProductReply(Fail(500, MsgServerError), st)
                 ELSE ProductReply(Ok(First(st.rows)), st)

\* app.put('/api/products/:id', auth, ...)
UpdateProductHandler(header, param, body) ==
    LET gate == auth(header)
    IN  IF ~ gate.next THEN ProductUntouched(gate.res)
        ELSE LET check == SelectProductOwner(param)
             IN  IF check.err # Null
                 THEN ProductUntouched(Fail(500, MsgServerError))
                 ELSE IF check.rows = {}
                 THEN ProductUntouched(Fail(404, MsgProductNotFound))
                 ELSE IF ~ IsOwner(First(check.rows), gate.user)
                 THEN ProductUntouched(Fail(403, MsgNoEditRight))
                 ELSE LET st == UpdateProduct(param, body)
                      IN  IF st.err # Null
                          THEN ProductReply(Fail(500, MsgServerError), st)
                          ELSE ProductReply(Ok(First(st.rows)), st)

\* app.delete('/api/products/:id', auth, ...)
DeleteProductHandler(header, param) ==
    LET gate == auth(header)
    IN  IF ~ gate.next THEN ProductUntouched(gate.res)
        ELSE LET check == SelectProductOwner(param)
             IN  IF check.err # Null
                 THEN ProductUntouched(Fail(500, MsgServerError))
                 ELSE IF check.rows = {}
                 THEN ProductUntouched(Fail(404, MsgProductNotFound))
                 ELSE IF ~ IsOwner(First(check.rows), gate.user)
                 THEN ProductUntouched(Fail(403, MsgNoDeleteRight))
                 ELSE ProductReply(Json(200, [success |-> TRUE,
                                              message |-> MsgDeleted]),
                                   DeleteProduct(param))

\* product bodies: a field that is not sent is Null, a price that is not
\* sent is absent
ProductBody(title, status) ==
    [title |-> title, description |-> Null, category |-> Null,
     status |-> status, images |-> Null]

Priced(body, price) ==
    [f \in DOMAIN body \cup {"price"} |->
        IF f = "price" THEN price ELSE body[f]]

CreateBodies ==
    {ProductBody(Null, Null), Priced(ProductBody(Null, Null), 1000),
     ProductBody("t1", Null), Priced(ProductBody("t1", Null), 1000),
     Priced(ProductBody(Long101, Null), 1000)}

UpdateBodies ==
    {ProductBody(Null, Null), Priced(ProductBody("t2", "sold"), 2000),
     ProductBody(Long101, Null)}

ProductHeaders == {NoHeader} \cup {<<"Bearer", t>> : t \in held}

\* whether the product the request names is stored
Stored(param) ==
    IsInteger(param) /\ \E r \in products : r.id = ParseInteger(param)

HandleProduct(op, known, out) ==
    LET mw == initDB
    IN  IF mw.ok
        THEN /\ out.pseq <= MaxProducts
             /\ products' = out.products
             /\ pseq' = out.pseq
             /\ last' = [op |-> op, status |-> out.res.status,
                         message |-> MessageOf(out.res), known |-> known]
             /\ db' = mw.db
             /\ UNCHANGED <<variant, users, seq, now, held, registered,
                            inflight, todos, tseq, down>>
        ELSE /\ last' = [op |-> op, status |-> InitFailed.status,
                         message |-> MessageOf(InitFailed), known |-> known]
             /\ UNCHANGED <<variant, users, seq, now, held, registered,
                            inflight, products, pseq, todos, tseq, down, db>>

CreateProduct ==
    \E header \in ProductHeaders, body \in CreateBodies :
        HandleProduct("createProduct", FALSE, CreateProductHandler(header, body))

PutProduct ==
    \E header \in ProductHeaders, param \in ParamIds, body \in UpdateBodies :
        HandleProduct("putProduct", Stored(param),
                      UpdateProductHandler(header, param, body))

RemoveProduct ==
    \E header \in ProductHeaders, param \in ParamIds :
        HandleProduct("deleteProduct", Stored(param),
                      DeleteProductHandler(header, param))

ProductRegister ==
    RegisterOf({RegisterBody("alice", "secret1", "A", Null, Null),
                RegisterBody("bob", "hunter22", "B", Null, Null)})

ProductLogin ==
    LoginOf({LoginBody("alice", "secret1"), LoginBody("bob", "hunter22")})

InitProducts == Init /\ variant = "marketplace"

NextProducts ==
    \/ ProductRegister \/ ProductLogin
    \/ CreateProduct \/ PutProduct \/ RemoveProduct

SpecProducts == InitProducts /\ [][NextProducts]_vars

----------------------------------------------------------------------------
(* The handlers while the database comes and goes: every pool.query of a   *)
(* request made during an outage rejects, that of initDB included.          *)

Outage ==
    /\ ~ down
    /\ down' = TRUE
    /\ UNCHANGED <<variant, users, seq, now, held, last, registered, inflight,
                   products, pseq, todos, tseq, db>>

Recovery ==
    /\ down
    /\ down' = FALSE
    /\ UNCHANGED <<variant, users, seq, now, held, last, registered, inflight,
                   products, pseq, todos, tseq, db>>

FaultRegister ==
    RegisterOf({RegisterBody("alice", "secret1", "A", "e1", "p1"),
                RegisterBody(Long51, "secret1", "A", Null, Null)})

FaultLogin == LoginOf({LoginBody("alice", "secret1"), LoginBody("alice", Null)})

FaultMe == MeOf({NoHeader} \cup {<<"Bearer", t>> : t \in held})

FaultProfile == ProfileOf({<<"Bearer", t>> : t \in held}, ProfileBodies)

NextFaults ==
    \/ FaultRegister \/ FaultLogin \/ FaultMe \/ FaultProfile
    \/ Outage \/ Recovery

SpecFaults == Init /\ [][NextFaults]_vars

----------------------------------------------------------------------------
(* The three operations that write a nickname, with the empty string among *)
(* the values a client sends.                                              *)

NickRegister ==
    RegisterOf({RegisterBody("alice", "secret1", "A", Null, Null),
                RegisterBody("bob", "hunter22", "", Null, Null)})

NickProfile ==
    ProfileOf({<<"Bearer", t>> : t \in held},
              {ProfileBody("", Null, Null, Null), ProfileBody("X", Null, Null, Null),
               ProfileBody(Null, Null, Null, Null)})

NickKakaoCallback ==
    KakaoCallbackOf({[code |-> "code", exchange |-> GoodExchange, profile |-> pr] :
                        pr \in {[id |-> 1001] @@ KakaoProfile("K", Null, Null),
                                [id |-> 1001] @@ KakaoProfile("", Null, Null),
                                [id |-> 1001] @@ KakaoProfile(Null, Null, Null)}})

NextNick == NickRegister \/ NickProfile \/ NickKakaoCallback

SpecNick == Init /\ [][NextNick]_vars

----------------------------------------------------------------------------
(* The life of a token: the clock, and the operations that follow the one  *)
(* that issued it.                                                         *)

LifeProfile ==
    ProfileOf({<<"Bearer", t>> : t \in held},
              {ProfileBody("X", Null, Null, Null)})

NextLife ==
    ClockRegister \/ ClockLogin \/ ClockKakaoCallback \/ ClockMe \/ LifeProfile
    \/ Tick

SpecLife == Init /\ [][NextLife]_vars

----------------------------------------------------------------------------
(* The start of the server and the /api middleware step by step: each       *)
(* await of initDB is a point where another request, an outage or the end   *)
(* of one can come in between.                                              *)

\* a request to a route under /api: where it stands, and its answer once it
\* has one (handled: the route handler ran)
ApiRequest(pc, status, message, handled) ==
    [op |-> "api", pc |-> pc, status |-> status, message |-> message,
     handled |-> handled]

InitFrame ==
    UNCHANGED <<variant, users, seq, now, held, last, registered, products,
                pseq, todos, tseq, down>>

\* app.use('/api', ...): await initDB(), which reads the flag and either
\* returns at once or sends its first statement
MwArrive(p) ==
    /\ variant # "todo"
    /\ inflight[p] = Idle
    /\ inflight' = [inflight EXCEPT ![p] =
           IF db.ready THEN ApiRequest("handler", 0, "", FALSE)
           ELSE ApiRequest("create", 0, "", FALSE)]
    /\ UNCHANGED db
    /\ InitFrame

\* MwCreate in a middleware that goes on to the handler whatever initDB did
MwCreateCarryingOn(p) ==
    /\ inflight[p].op = "api" /\ inflight[p].pc = "create"
    /\ IF down
       THEN /\ inflight' = [inflight EXCEPT ![p] = ApiRequest("handler", 0, "", FALSE)]
            /\ UNCHANGED db
       ELSE /\ inflight' = [inflight EXCEPT ![p].pc = "second"]
            /\ db' = [db EXCEPT !.creates = @ + 1]
    /\ InitFrame

\* the first CREATE TABLE IF NOT EXISTS answers; a rejection leaves initDB
\* before it set the flag and makes the middleware answer
MwCreate(p) ==
    /\ inflight[p].op = "api" /\ inflight[p].pc = "create"
    /\ IF down
       THEN /\ inflight' = [inflight EXCEPT ![p] =
                   ApiRequest("done", InitFailed.status, MessageOf(InitFailed), FALSE)]
            /\ UNCHANGED db
       ELSE /\ inflight' = [inflight EXCEPT ![p].pc = "second"]
            /\ db' = [db EXCEPT !.creates = @ + 1]
    /\ InitFrame

\* the second statement answers: the products table of the marketplace,
\* whose rejection is the middleware's; ALTER TABLE ... ADD COLUMN IF NOT
\* EXISTS of ecommerce, whose rejection .catch(() => {}) drops.  Then
\* dbInitialized = true and next().
MwSecond(p) ==
    /\ inflight[p].op = "api" /\ inflight[p].pc = "second"
    /\ IF down /\ variant = "marketplace"
       THEN /\ inflight' = [inflight EXCEPT ![p] =
                   ApiRequest("done", InitFailed.status, MessageOf(InitFailed), FALSE)]
            /\ UNCHANGED db
       ELSE /\ inflight' = [inflight EXCEPT ![p].pc = "handler"]
            /\ db' = [db EXCEPT !.ready = TRUE, !.complete = @ \/ ~ down]
    /\ InitFrame

\* the route handler runs and answers
ApiHandler(p) ==
    /\ inflight[p].op = "api" /\ inflight[p].pc = "handler"
    /\ inflight' = [inflight EXCEPT ![p] = ApiRequest("done", 0, "", TRUE)]
    /\ UNCHANGED db
    /\ InitFrame

\* initDB() of the todo server, first statement; .catch: process.exit(1)
TodoCreate ==
    /\ variant = "todo"
    /\ ~ db.ready /\ ~ db.exited /\ db.creates = 0
    /\ db' = IF down THEN [db EXCEPT !.exited = TRUE]
             ELSE [db EXCEPT !.creates = @ + 1]
    /\ UNCHANGED inflight
    /\ InitFrame

\* its second statement, and .then(() => app.listen(PORT))
TodoListen ==
    /\ variant = "todo"
    /\ ~ db.ready /\ ~ db.exited /\ db.creates > 0
    /\ db' = IF down THEN [db EXCEPT !.exited = TRUE]
             ELSE [db EXCEPT !.ready = TRUE, !.complete = TRUE]
    /\ UNCHANGED inflight
    /\ InitFrame

\* a request to the listening todo server, which has no middleware before
\* its routes
TodoArrive(p) ==
    /\ variant = "todo"
    /\ db.ready
    /\ inflight[p] = Idle
    /\ inflight' = [inflight EXCEPT ![p] = ApiRequest("handler", 0, "", FALSE)]
    /\ UNCHANGED db
    /\ InitFrame

\* the process has just been started
InitBoot == Started(Fresh)

NextBoot ==
    \/ \E p \in Procs :
          \/ MwArrive(p) \/ MwCreate(p) \/ MwSecond(p) \/ ApiHandler(p)
          \/ TodoArrive(p)
    \/ TodoCreate \/ TodoListen
    \/ Outage \/ Recovery

SpecBoot == InitBoot /\ [][NextBoot]_vars

----------------------------------------------------------------------------
(* The todo items of the todo server: every statement on them names the    *)
(* caller's id beside the item's.                                           *)

TodoTitleWidth == 255

MsgTitleRequired == "Title required"
MsgTodoNotFound == "Todo not found"

\* a title of 256 characters
Long256 ==
    "abcdefghijabcdefghijabcdefghijabcdefghijabcdefghijabcdefghijabcdefghijabcdefghijabcdefghijabcdefghijabcdefghijabcdefghijabcdefghijabcdefghijabcdefghijabcdefghijabcdefghijabcdefghijabcdefghijabcdefghijabcdefghijabcdefghijabcdefghijabcdefghijabcdefghijabcdef"

\* the result of a statement on the todos table
TodoFailed(code, s) == [err |-> code, rows |-> {}, todos |-> todos, tseq |-> s]

TodoDone(rows, table, s) == [err |-> Null, rows |-> rows, todos |-> table, tseq |-> s]

TodoReply(res, st) == [res |-> res, todos |-> st.todos, tseq |-> st.tseq]

TodoUntouched(res) == [res |-> res, todos |-> todos, tseq |-> tseq]

\* SELECT * FROM todo_app_01_todos WHERE user_id = $1 ORDER BY created_at DESC
\* (the rows as a set: the order among rows of one day is the database's)
SelectTodos(userId) ==
    IF down THEN TodoFailed(ConnectionFailure, tseq)
    ELSE TodoDone({r \in todos : r.user_id = userId}, todos, tseq)

\* INSERT INTO todo_app_01_todos (user_id, title) VALUES ($1, $2) RETURNING *
InsertTodoItem(userId, title) ==
    LET id == tseq + 1
        row == [id |-> id, user_id |-> userId, title |-> title,
                completed |-> FALSE, created_at |-> now]
    IN  IF down THEN TodoFailed(ConnectionFailure, tseq)
        ELSE IF ~ Fits(title, TodoTitleWidth) THEN TodoFailed("22001", id)
        ELSE IF \A u \in users : u.id # userId THEN TodoFailed("23503", id)
        ELSE TodoDone({row}, todos \cup {row}, id)

\* OwnTodo without AND user_id = $2
AnyTodo(param, userId) == {r \in todos : r.id = ParseInteger(param)}

\* the rows WHERE id = $1 AND user_id = $2 selects
OwnTodo(param, userId) ==
    {r \in todos : r.id = ParseInteger(param) /\ r.user_id = userId}

\* UPDATE todo_app_01_todos SET title = COALESCE($1, title),
\* completed = COALESCE($2, completed) WHERE id = $3 AND user_id = $4
\* RETURNING *
UpdateTodo(title, completed, param, userId) ==
    LET new(r) == [r EXCEPT !.title = Coalesce(title, r.title),
                            !.completed = IF completed = Null THEN r.completed
                                          ELSE completed = "true"]
    IN  IF down THEN TodoFailed(ConnectionFailure, tseq)
        ELSE IF ~ IsInteger(param) THEN TodoFailed("22P02", tseq)
        ELSE LET hit == OwnTodo(param, userId)
             IN  IF \E r \in hit : ~ Fits(new(r).title, TodoTitleWidth)
                 THEN TodoFailed("22001", tseq)
                 ELSE TodoDone({new(r) : r \in hit},
                               (todos \ hit) \cup {new(r) : r \in hit}, tseq)

\* DELETE FROM todo_app_01_todos WHERE id = $1 AND user_id = $2 RETURNING *
DeleteTodo(param, userId) ==
    IF down THEN TodoFailed(ConnectionFailure, tseq)
    ELSE IF ~ IsInteger(param) THEN TodoFailed("22P02", tseq)
    ELSE LET hit == OwnTodo(param, userId)
         IN  TodoDone(hit, todos \ hit, tseq)

\* app.get('/api/todos', auth, ...)
ListTodosHandler(header) ==
    LET gate == auth(header)
    IN  IF ~ gate.next THEN TodoUntouched(gate.res)
        ELSE LET st == SelectTodos(gate.user.claims.id)
             IN  IF st.err # Null
                 THEN TodoUntouched(Fail(500, MsgServerErrorTodo))
                 ELSE TodoUntouched(Ok(st.rows))

\* app.post('/api/todos', auth, ...)
CreateTodoHandler(header, body) ==
    LET gate == auth(header)
    IN  IF ~ gate.next THEN TodoUntouched(gate.res)
        ELSE IF Falsy(body.title) THEN TodoUntouched(Fail(400, MsgTitleRequired))
        ELSE LET st == InsertTodoItem(gate.user.claims.id, body.title)
             IN  IF st.err # Null
                 THEN TodoReply(Fail(500, MsgServerErrorTodo), st)
                 ELSE TodoReply(Ok(First(st.rows)), st)

\* app.put('/api/todos/:id', auth, ...)
UpdateTodoHandler(header, param, body) ==
    LET gate == auth(header)
    IN  IF ~ gate.next THEN TodoUntouched(gate.res)
        ELSE LET st == UpdateTodo(body.title, body.completed, param,
                                  gate.user.claims.id)
             IN  IF st.err # Null
                 THEN TodoReply(Fail(500, MsgServerErrorTodo), st)
                 ELSE IF st.rows = {}
                 THEN TodoReply(Fail(404, MsgTodoNotFound), st)
                 ELSE TodoReply(Ok(First(st.rows)), st)

\* app.delete('/api/todos/:id', auth, ...)
DeleteTodoHandler(header, param) ==
    LET gate == auth(header)
    IN  IF ~ gate.next THEN TodoUntouched(gate.res)
        ELSE LET st == DeleteTodo(param, gate.user.claims.id)
             IN  IF st.err # Null
                 THEN TodoReply(Fail(500, MsgServerErrorTodo), st)
                 ELSE IF st.rows = {}
                 THEN TodoReply(Fail(404, MsgTodoNotFound), st)
                 ELSE TodoReply(Ok(First(st.rows)), st)

\* bodies: a field that is not sent is Null; completed travels as JSON
\* true or false
TodoBody(title, completed) == [title |-> title, completed |-> completed]

CreateTodoBodies == {TodoBody(Null, Null), TodoBody("t1", Null),
                     TodoBody(Long256, Null)}

UpdateTodoBodies == {TodoBody("t2", "true"), TodoBody(Null, "false"),
                     TodoBody(Long256, Null)}

\* req.params.id is text; the statement's $1 is read as an integer
TodoParams == {ToString(i) : i \in 1 .. MaxTodos + 1} \cup {"abc"}

TodoHeaders == {NoHeader} \cup {<<"Bearer", t>> : t \in held}

\* whether the item the request names is stored
StoredTodo(param) ==
    IsInteger(param) /\ \E r \in todos : r.id = ParseInteger(param)

HandleTodo(op, known, out) ==
    LET mw == initDB
    IN  IF mw.ok
        THEN /\ out.tseq <= MaxTodos
             /\ todos' = out.todos
             /\ tseq' = out.tseq
             /\ last' = [op |-> op, status |-> out.res.status,
                         message |-> MessageOf(out.res), known |-> known]
             /\ db' = mw.db
             /\ UNCHANGED <<variant, users, seq, now, held, registered,
                            inflight, products, pseq, down>>
        ELSE /\ last' = [op |-> op, status |-> InitFailed.status,
                         message |-> MessageOf(InitFailed), known |-> known]
             /\ UNCHANGED <<variant, users, seq, now, held, registered,
                            inflight, products, pseq, todos, tseq, down, db>>

ListTodos ==
    \E header \in TodoHeaders :
        HandleTodo("listTodos", FALSE, ListTodosHandler(header))

CreateTodo ==
    \E header \in TodoHeaders, body \in CreateTodoBodies :
        HandleTodo("createTodo", FALSE, CreateTodoHandler(header, body))

PutTodo ==
    \E header \in TodoHeaders, param \in TodoParams, body \in UpdateTodoBodies :
        HandleTodo("putTodo", StoredTodo(param),
                   UpdateTodoHandler(header, param, body))

RemoveTodo ==
    \E header \in TodoHeaders, param \in TodoParams :
        HandleTodo("deleteTodo", StoredTodo(param),
                   DeleteTodoHandler(header, param))

TodoRegister ==
    RegisterOf({RegisterBody("alice", "secret1", Null, Null, Null),
                RegisterBody("bob", "hunter22", Null, Null, Null)})

TodoLogin ==
    LoginOf({LoginBody("alice", "secret1"), LoginBody("bob", "hunter22")})

InitTodos == Init /\ variant = "todo"

NextTodos ==
    \/ TodoRegister \/ TodoLogin
    \/ ListTodos \/ CreateTodo \/ PutTodo \/ RemoveTodo

SpecTodos == InitTodos /\ [][NextTodos]_vars

----------------------------------------------------------------------------
(* Properties.  A property about a handler is stated in every reachable    *)
(* state, for every request of the request sets: the handler is applied to *)
(* the request in that state and its result is examined.                   *)

\* a field left out of the request, or sent empty
Missing(v) == v = Null \/ v = ""

\* the request names a user of the table
Exists(username) == \E r \in users : r.username = username

\* the fields register requires in every variant, with a password of 6 or more
RegisterValid(body) ==
    /\ ~ Missing(body.username) /\ ~ Missing(body.password) /\ ~ Missing(body.nickname)
    /\ Len(body.password) >= 6

\* the fields the variant stores fit the columns that store them
RegisterFits(body) ==
    /\ Len(body.username) <= 50
    /\ variant # "todo" => Len(body.nickname) <= 50
    /\ variant = "ecommerce" =>
         /\ Missing(body.email) \/ Len(body.email) <= 100
         /\ Missing(body.phone) \/ Len(body.phone) <= 20

\* the response carries a token the gate accepts in the name of user `id`
CarriesTokenOf(res, id) ==
    \E t \in TokenOf(res) :
        LET gate == auth(<<"Bearer", t>>)
        IN  gate.next /\ gate.user.claims.id = id

RegisterSucceeds(body, salt) ==
    LET out == RegisterHandler(body, salt)
    IN  /\ out.res.status = 200
        /\ \E r \in out.users \ users :
              /\ r.username = body.username
              /\ CarriesTokenOf(out.res, r.id)
              /\ out.users = users \cup {r}

LoginSucceeds(c) ==
    LET out == LoginHandler(LoginBody(c.username, c.password))
    IN  /\ out.res.status = 200
        /\ CarriesTokenOf(out.res, c.id)
        /\ out.users = users

\* C1 (as the code has it): register with a username not in the table, a
\* password of 6 or more characters and a non-empty nickname, all fitting
\* their columns (username and nickname 50 characters, email 100, phone
\* 20), answers 200 with a token the gate accepts and whose claims carry
\* the id of the row just created; and whatever is handled afterwards, a
\* login with the credentials of any accepted registration answers 200
\* with a token for that user.
C1_RegisterThenLogin ==
    /\ \A body \in RegisterBodies, salt \in Salts :
          RegisterValid(body) /\ RegisterFits(body) /\ ~ Exists(body.username)
            => RegisterSucceeds(body, salt)
    /\ \A c \in registered : LoginSucceeds(c)

\* C1 as the specification words it: every username not in the table, with
\* a password of 6 or more and a non-empty nickname, is registered.
C1_AnyUsernameRegisters ==
    /\ \A body \in RegisterBodies, salt \in Salts :
          RegisterValid(body) /\ ~ Exists(body.username)
            => RegisterSucceeds(body, salt)
    /\ \A c \in registered : LoginSucceeds(c)

\* a registration was accepted and, after it, a login answered 200
C1_Witness ==
    /\ registered # {}
    /\ last.op = "login" /\ last.status = 200

\* the fields the variant's register requires, as the variant requires them
RegisterAccepted(body) ==
    /\ ~ Missing(body.username) /\ ~ Missing(body.password)
    /\ variant # "todo" => ~ Missing(body.nickname)
    /\ variant = "ecommerce" => Len(body.password) >= 6

RegisterConflicts(body, salt) ==
    LET out == RegisterHandler(body, salt)
    IN  /\ out.res.status = 409
        /\ TokenOf(out.res) = {} /\ out.issued = {}
        /\ out.users = users

\* C2 (as the code has it): register with a username already in the table
\* and fields that pass the variant's validation and fit their columns
\* answers 409, carries no token, and leaves the table as it was.
C2_DuplicateUsername ==
    \A body \in RegisterBodies, salt \in Salts :
        Exists(body.username) /\ RegisterAccepted(body) /\ RegisterFits(body)
          => RegisterConflicts(body, salt)

\* C2 as the specification words it: 409 regardless of the other fields.
C2_DuplicateWhateverFields ==
    \A body \in RegisterBodies, salt \in Salts :
        Exists(body.username) => RegisterConflicts(body, salt)

\* a register for a username of the table was answered 409
C2_Witness ==
    /\ last.op = "register" /\ last.status = 409 /\ last.known
    /\ Cardinality(users) = Cardinality(registered)

\* C3: a login with the username of a registered user and a password that
\* is not theirs, and a login with a username not in the table, get the
\* same response, a 401 without a token.
C3_LoginFailuresAlike ==
    \A b1 \in LoginBodies, b2 \in LoginBodies :
        ( /\ ~ Missing(b1.username) /\ ~ Missing(b1.password)
          /\ ~ Missing(b2.username) /\ ~ Missing(b2.password)
          /\ \E c \in registered : c.username = b1.username
          /\ \A c \in registered :
                c.username = b1.username => c.password # b1.password
          /\ ~ Exists(b2.username) )
        => /\ LoginHandler(b1).res = LoginHandler(b2).res
           /\ LoginHandler(b1).res.status = 401
           /\ LoginHandler(b1).issued = {} /\ LoginHandler(b2).issued = {}
           /\ TokenOf(LoginHandler(b1).res) = {}

\* a login for a username of the table was answered 401
C3_Witness == last.op = "login" /\ last.status = 401 /\ last.known


\* the tokens of every response register, login and the callback can give
\* to the requests of the request sets in this state
IssuedNow ==
    UNION ( {RegisterHandler(body, salt).issued :
                body \in RegisterBodies, salt \in Salts}
            \cup {LoginHandler(body).issued : body \in LoginBodies}
            \cup IF variant = "ecommerce"
                 THEN {KakaoCallbackHandler(r.code, r.exchange, r.profile).issued :
                          r \in KakaoRequests}
                 ELSE {} )

\* C4: a token issued at day T by register, login or the callback (its iat
\* is the day of issue) is accepted by the gate up to day T + 6 and is
\* answered 401 at day T + 8.
C4_SevenDayWindow ==
    /\ \A t \in IssuedNow : t.iat = now
    /\ \A t \in held :
          LET gate == auth(<<"Bearer", t>>)
          IN  /\ now <= t.iat + 6 => gate.next /\ gate.user.claims = t.payload
              /\ now = t.iat + 8 => ~ gate.next /\ gate.res.status = 401

\* a kept token was presented 8 days after its issue and answered 401
C4_Witness ==
    /\ \E t \in held : now = t.iat + 8
    /\ last.op = "me" /\ last.status = 401


\* the rows kept tokens speak for
Callers == {r \in users : \E t \in held : auth(<<"Bearer", t>>).next /\ t.payload.id = r.id}

\* nothing came of the request but a 401
TurnedDown(out) ==
    /\ out.res.status = 401
    /\ out.users = users /\ out.seq = seq /\ out.issued = {}

\* C5: a request to a bearer-protected endpoint without an Authorization
\* header, with a header that is not "Bearer <token>", or with a token that
\* is not signed with the server's secret is answered 401 by the gate,
\* which does not call the handler, and the table is left as it was.
C5_GateTurnsDown ==
    \A header \in BadHeaders :
        /\ ~ auth(header).next
        /\ auth(header).res.status = 401
        /\ variant # "todo" =>
              /\ TurnedDown(MeHandler(header))
              /\ \A body \in ProfileBodies : TurnedDown(ProfileHandler(header, body))

\* a profile update was turned down by the gate with users in the table
C5_Witness ==
    /\ last.op = "profile" /\ last.status = 401 /\ ~ last.known
    /\ users # {}

\* the fields PUT /api/auth/profile writes
Updatable ==
    IF variant = "ecommerce" THEN {"nickname", "email", "phone"}
    ELSE {"nickname", "location"}

\* the row with the non-null fields of the body written over its own
Overwritten(r, body) ==
    [f \in DOMAIN r |->
        IF f \in Updatable /\ body[f] # Null THEN body[f] ELSE r[f]]

ProfileFits(body) ==
    /\ body.nickname = Null \/ Len(body.nickname) <= 50
    /\ variant = "ecommerce" =>
          /\ body.email = Null \/ Len(body.email) <= 100
          /\ body.phone = Null \/ Len(body.phone) <= 20
    /\ variant = "marketplace" =>
          body.location = Null \/ Len(body.location) <= 100

ProfileCoalesces(r, t, body) ==
    LET out == ProfileHandler(<<"Bearer", t>>, body)
    IN  /\ out.res.status = 200
        /\ out.users = (users \ {r}) \cup {Overwritten(r, body)}

\* C6 (as the code has it): when the supplied values fit their columns
\* (nickname 50 characters, email 100, phone 20, location 100),
\* updateProfile writes exactly the supplied non-null fields and leaves
\* every other field of the caller's row, and every other row, as it was;
\* when one does not fit, it answers 500 and changes nothing.
C6_ProfileCoalesce ==
    variant # "todo" =>
      \A t \in held, body \in ProfileBodies :
        \A r \in {c \in Callers : c.id = t.payload.id} :
            IF ProfileFits(body)
            THEN ProfileCoalesces(r, t, body)
            ELSE LET out == ProfileHandler(<<"Bearer", t>>, body)
                 IN  out.res.status = 500 /\ out.users = users

\* C6 as the specification words it: the supplied non-null fields are
\* written, whatever they are.
C6_ProfileAlwaysWrites ==
    variant # "todo" =>
      \A t \in held, body \in ProfileBodies :
        \A r \in {c \in Callers : c.id = t.payload.id} :
            ProfileCoalesces(r, t, body)

\* alice changed her nickname and nothing else
C6_Witness ==
    /\ last.op = "profile" /\ last.status = 200 /\ last.known
    /\ \E r \in users : r.username = "alice" /\ r.nickname = "X"
    /\ \A r \in users : r.username = "alice" /\ variant = "ecommerce" =>
          r.email = "e1" /\ r.phone = "p1"

\* C7: a successful callback for a provider id that a row already carries
\* creates no row, changes no other row, changes of that row at most
\* nickname, profile image and email (id, provider and the rest stay),
\* and issues a token that carries the row's id.
C7_SecondCallbackSameUser ==
    variant = "ecommerce" =>
      \A q \in KakaoRequests :
        LET out == KakaoCallbackHandler(q.code, q.exchange, q.profile)
            old == {u \in users : u.kakao_id = KakaoIdOf(q.profile)}
        IN  old # {} /\ TokenOf(out.res) # {} =>
              \E o \in old, n \in out.users :
                  /\ out.users = (users \ {o}) \cup {n}
                  /\ Cardinality(out.users) = Cardinality(users)
                  /\ out.seq = seq
                  /\ \A f \in DOMAIN o \ {"nickname", "profile_image", "email"} :
                        n[f] = o[f]
                  /\ CarriesTokenOf(out.res, o.id)

\* a callback for a provider id of the table was answered with a token
C7_Witness ==
    /\ last.op = "kakao" /\ last.status = 302 /\ last.message = ""
    /\ last.known

\* C8: the ecommerce register answers 400 when username, password or
\* nickname is missing or empty, or the password has fewer than 6
\* characters; then no row is created and no token is issued.
C8_RegisterValidation ==
    variant = "ecommerce" =>
      \A body \in RegisterBodies, salt \in Salts :
        ( \/ Missing(body.username) \/ Missing(body.password)
          \/ Missing(body.nickname) \/ Len(body.password) < 6 )
        => LET out == RegisterHandler(body, salt)
           IN  /\ out.res.status = 400
               /\ out.users = users /\ out.seq = seq
               /\ out.issued = {} /\ TokenOf(out.res) = {}

\* a register with a password of fewer than 6 characters was answered 400
C8_Witness ==
    /\ variant = "ecommerce"
    /\ last.op = "register" /\ last.status = 400
    /\ last.message = MsgPasswordTooShort

ShortPassword(body) == ~ Missing(body.password) /\ Len(body.password) < 6

\* C9 (as the code has it): the marketplace and todo registers answer 400
\* exactly when a field they require is missing or empty; a password of
\* fewer than 6 characters is accepted, and with a new username and
\* fields that fit it is answered 200 and creates the user.
C9_NoPasswordPolicyElsewhere ==
    variant # "ecommerce" =>
      \A body \in RegisterBodies, salt \in Salts :
        /\ RegisterHandler(body, salt).res.status = 400
             <=> ( \/ Missing(body.username) \/ Missing(body.password)
                   \/ (variant = "marketplace" /\ Missing(body.nickname)) )
        /\ ( /\ ShortPassword(body) /\ RegisterAccepted(body)
             /\ RegisterFits(body) /\ ~ Exists(body.username) )
           => RegisterSucceeds(body, salt)

\* C9 as the specification words it: the marketplace register answers 400
\* to a password of fewer than 6 characters and creates no user.
C9_MarketplaceRejectsShort ==
    variant = "marketplace" =>
      \A body \in RegisterBodies, salt \in Salts :
        ShortPassword(body) =>
          /\ RegisterHandler(body, salt).res.status = 400
          /\ RegisterHandler(body, salt).users = users

\* the marketplace registered a user with a password of 3 characters
C9_Witness ==
    /\ variant = "marketplace"
    /\ last.op = "register" /\ last.status = 200
    /\ registered # {}
    /\ \A c \in registered : Len(c.password) < 6

\* neither the data of the response, nor the user in it, nor the claims of
\* the token in it has a password field
NoPassword(res) ==
    /\ res.kind = "json" /\ "data" \in DOMAIN res.body =>
          /\ "password" \notin DOMAIN res.body.data
          /\ "user" \in DOMAIN res.body.data =>
                "password" \notin DOMAIN res.body.data.user
    /\ \A t \in TokenOf(res) : "password" \notin DOMAIN t.payload

\* C10: no response of register, login, /me or updateProfile carries the
\* password column of a row, whatever the request and whatever came before.
C10_NoPasswordInResponses ==
    /\ \A body \in RegisterBodies, salt \in Salts :
          NoPassword(RegisterHandler(body, salt).res)
    /\ \A body \in LoginBodies : NoPassword(LoginHandler(body).res)
    /\ variant # "todo" =>
          \A header \in Headers :
              /\ NoPassword(MeHandler(header).res)
              /\ \A body \in ProfileBodies :
                    NoPassword(ProfileHandler(header, body).res)

\* /me answered 200 with the row of a registered user
C10_Witness ==
    /\ last.op = "me" /\ last.status = 200 /\ last.known
    /\ registered # {}


\* logins someone may try against an account that came from the provider:
\* its nickname or its provider id for a username
LoginTries ==
    LoginBodies
    \cup {LoginBody(u, p) : u \in {"K", "1001"}, p \in {"secret1", "1001"}}

\* C11: a login response carries a token only if a row with the given
\* username (in the ecommerce backend: and provider 'local') is in the
\* table, the given password is the one that row was registered with, and
\* the token carries that row's id; no token of login carries the id of a
\* row with provider 'kakao'.
C11_LoginTokenOnlyForLocal ==
    \A body \in LoginTries :
        LET out == LoginHandler(body)
        IN  \A t \in TokenOf(out.res) \cup out.issued :
              /\ \E r \in users :
                    /\ r.username = body.username
                    /\ r.id = t.payload.id
                    /\ r.password # <<>>
                    /\ variant = "ecommerce" => r.provider = "local"
                    /\ \E c \in registered :
                          /\ c.id = r.id /\ c.username = body.username
                          /\ c.password = body.password
              /\ variant = "ecommerce" =>
                    \A r \in users : r.provider = "kakao" => r.id # t.payload.id

\* a login was answered with a token while the table held a kakao account
C11_Witness ==
    /\ last.op = "login" /\ last.status = 200 /\ last.known
    /\ variant = "ecommerce"
    /\ \E r \in users : r.provider = "kakao"


\* a step of the callback fails: no code, the exchange rejects or gives no
\* access token, the profile request rejects or answers without an id
StepFails(q) ==
    \/ Missing(q.code)
    \/ q.exchange.throws \/ Missing(q.exchange.access_token)
    \/ q.profile.throws \/ "id" \notin DOMAIN q.profile

\* the callback ended in the error route, and nothing else happened
EndsInErrorRoute(out) ==
    /\ out.res.kind = "redirect"
    /\ out.res.location.path = "/#/login"
    /\ "error" \in DOMAIN out.res.location /\ out.res.location.error # ""
    /\ TokenOf(out.res) = {} /\ out.issued = {}
    /\ out.users = users

\* C12 as the specification words it: whenever a step of the callback
\* fails (no code, exchange rejected, profile request failed or answered
\* without a provider id) the response is the redirect to the error route
\* with a message, no token is issued and no row is created or updated.
C12_FailedStepNoAccount ==
    variant = "ecommerce" =>
      \A q \in KakaoRequests :
        StepFails(q) =>
          EndsInErrorRoute(KakaoCallbackHandler(q.code, q.exchange, q.profile))

\* a callback whose profile answer had no id was answered with a token,
\* and the table holds an account for the provider id "undefined"
C12_Witness ==
    /\ last.op = "kakao" /\ last.status = 302 /\ last.message = ""
    /\ \E r \in users : r.kakao_id = "undefined"
    /\ \E t \in held : \E r \in users :
          r.kakao_id = "undefined" /\ t.payload.id = r.id


\* profile bodies that also name a user: an id, as if the client chose whom
\* to update
ProfileTries ==
    ProfileBodies \cup {[id |-> j] @@ b : j \in 1 .. 2, b \in ProfileBodies}

\* the rows of the table but the one with id i
Others(table, i) == {r \in table : r.id # i}

\* C13: /me and PUT /profile act on the row whose id is in the verified
\* token and on no other: whatever the body holds (an id of its own
\* included), every row but the caller's is left as it was and no row is
\* added or removed, and /me answers with the row that has the caller's id.
C13_OwnRecordOnly ==
    variant # "todo" =>
      \A t \in held :
        auth(<<"Bearer", t>>).next =>
          /\ \A body \in ProfileTries :
                LET out == ProfileHandler(<<"Bearer", t>>, body)
                IN  /\ Others(out.users, t.payload.id) = Others(users, t.payload.id)
                    /\ {r.id : r \in out.users} = {r.id : r \in users}
                    /\ out.res.status = 200 => out.res.body.data.id = t.payload.id
          /\ LET out == MeHandler(<<"Bearer", t>>)
             IN  /\ out.users = users
                 /\ out.res.status = 200 =>
                       \E r \in users :
                          /\ r.id = t.payload.id
                          /\ \A f \in DOMAIN out.res.body.data :
                                out.res.body.data[f] = r[f]

\* one of two users changed their nickname and the other's row kept its own
C13_Witness ==
    /\ last.op = "profile" /\ last.status = 200 /\ last.known
    /\ Cardinality(users) = 2
    /\ \E r \in users : r.nickname = "X"
    /\ \E r \in users : r.nickname # "X"


\* the connections whose register for username u, with valid and fitting
\* fields, came when no row had that username, and has been answered
AnsweredRegisters(u) ==
    {p \in Procs :
        /\ inflight[p].op = "register" /\ inflight[p].pc = "done"
        /\ inflight[p].fresh
        /\ inflight[p].body.username = u
        /\ RegisterValid(inflight[p].body) /\ RegisterFits(inflight[p].body)}

\* C14: when two (or more) register requests for the same unused username
\* overlap, then however their steps interleave exactly one is answered 200
\* with a token, the others 409, and exactly one row has that username:
\* the one whose id the token carries.
C14_ConcurrentRegisterOneWins ==
    \A u \in {"alice", "bob"} :
        LET answered == AnsweredRegisters(u)
            rows == {r \in users : r.username = u}
        IN  Cardinality(answered) >= 2 =>
              /\ Cardinality({p \in answered : inflight[p].status = 200}) = 1
              /\ \A p \in answered :
                    \/ inflight[p].status = 409 /\ inflight[p].tokenId = 0
                    \/ /\ inflight[p].status = 200
                       /\ \E r \in rows : r.id = inflight[p].tokenId
              /\ Cardinality(rows) = 1

\* two registers for alice that overlapped have both been answered
C14_Witness ==
    /\ Cardinality(AnsweredRegisters("alice")) = 2
    /\ \E p \in Procs : inflight[p].op = "register" /\ inflight[p].status = 409


\* C15: /me with a token the gate accepts answers 200 with the row that
\* has the token's id as it is stored now (its nickname is the stored one,
\* not the one in the token's claims) when there is such a row, and 404
\* when there is none.
C15_MeReturnsStoredRecord ==
    variant # "todo" =>
      \A t \in held :
        auth(<<"Bearer", t>>).next =>
          LET out == MeHandler(<<"Bearer", t>>)
              rows == {r \in users : r.id = t.payload.id}
          IN  IF rows = {}
              THEN out.res.status = 404
              ELSE /\ out.res.status = 200
                   /\ \A r \in rows :
                         /\ {"id", "username", "nickname"} \subseteq
                               DOMAIN out.res.body.data
                         /\ \A f \in DOMAIN out.res.body.data :
                               out.res.body.data[f] = r[f]

\* /me answered 200 for a kept token whose nickname claim is out of date
C15_Witness ==
    /\ last.op = "me" /\ last.status = 200
    /\ \E t \in held : \E r \in users :
          r.id = t.payload.id /\ r.nickname # t.payload.nickname

\* /me answered 404 for a kept token whose row is gone
C15_WitnessGone ==
    /\ last.op = "me" /\ last.status = 404
    /\ \E t \in held : \A r \in users : r.id # t.payload.id


\* the envelope {success, data?, message?} of one response; redirects of
\* the callback are not JSON responses
Envelope(res, carriesData) ==
    res.kind = "json" =>
        /\ DOMAIN res.body \subseteq {"success", "data", "message"}
        /\ "success" \in DOMAIN res.body
        /\ res.body.success = (res.status < 400)
        /\ ~ res.body.success => "message" \in DOMAIN res.body
        /\ (res.body.success /\ carriesData) => "data" \in DOMAIN res.body

\* the responses of the gate, register, login and /me follow the envelope
EnvelopeElsewhere ==
    /\ \A header \in Headers :
          ~ auth(header).next => Envelope(auth(header).res, FALSE)
    /\ \A body \in RegisterBodies, salt \in Salts :
          Envelope(RegisterHandler(body, salt).res, TRUE)
    /\ \A body \in LoginBodies : Envelope(LoginHandler(body).res, TRUE)
    /\ variant # "todo" =>
          \A header \in Headers : Envelope(MeHandler(header).res, TRUE)

\* C16: every JSON response of the gate, register, login, /me and
\* updateProfile has the envelope {success, data?, message?}: success is
\* false exactly for an error status, a failure carries a message, and a
\* success of register, login, /me or updateProfile carries data.
C16_ResponseEnvelope ==
    /\ EnvelopeElsewhere
    /\ variant # "todo" =>
          \A header \in Headers, body \in ProfileBodies :
              Envelope(ProfileHandler(header, body).res, TRUE)

\* the envelope holds for every response but the profile update of a caller
\* whose row is not stored
C16_EnvelopeWhileStored ==
    /\ EnvelopeElsewhere
    /\ variant # "todo" =>
          \A header \in Headers, body \in ProfileBodies :
              Bearer(header) # {} =>
                  Envelope(ProfileHandler(header, body).res, TRUE)

\* a profile update was answered 200 for a token whose row is not stored
C16_Witness ==
    /\ variant = "marketplace"
    /\ last.op = "profile" /\ last.status = 200 /\ ~ last.known


\* the stored product a request for `param` names
Named(param) == {r \in products : ToString(r.id) = param}

\* the rows of the products table that `out` changed or removed
Touched(out) == products \ out.products

\* C17: PUT or DELETE on a stored product by a caller the gate accepts who
\* is not its owner is answered 403 and changes no product; whatever the
\* request, a product is changed or removed only when the gate accepts the
\* caller and the caller's id is the product's user_id, and creating a
\* product changes no other.
C17_OnlyOwnerChangesProduct ==
    \A header \in Headers \cup {NoHeader}, param \in ParamIds :
        LET gate == auth(header)
            stranger == gate.next /\ \E r \in Named(param) :
                            r.user_id # gate.user.claims.id
            owned(out) == \A r \in Touched(out) :
                            gate.next /\ r.user_id = gate.user.claims.id
            refused(out) == out.res.status = 403 /\ out.products = products
        IN  /\ \A body \in UpdateBodies :
                 LET out == UpdateProductHandler(header, param, body)
                 IN  /\ stranger => refused(out)
                     /\ owned(out)
                     /\ \A r \in out.products \ products :
                           \E q \in Touched(out) :
                               q.id = r.id /\ q.user_id = r.user_id
            /\ LET out == DeleteProductHandler(header, param)
               IN  /\ stranger => refused(out)
                   /\ owned(out)
                   /\ out.products \subseteq products
            /\ \A body \in CreateBodies :
                 Touched(CreateProductHandler(header, body)) = {}

\* a stored product's PUT or DELETE was answered 403
C17_Witness ==
    /\ last.op \in {"putProduct", "deleteProduct"}
    /\ last.status = 403 /\ last.known
    /\ products # {}


\* the requests whose handler gets as far as a statement that fails for a
\* reason other than uniqueness, with what the handler answers: every
\* request past validation and the gate while the database is down, and a
\* register or a profile update with a value wider than its column
StoreFailures ==
    LET viaRegister ==
            {RegisterHandler(body, salt) : body \in
                {b \in RegisterBodies :
                    RegisterValid(b) /\ (down \/ ~ RegisterFits(b))},
             salt \in Salts}
        viaLogin ==
            {LoginHandler(body) : body \in
                {b \in LoginBodies :
                    down /\ ~ Missing(b.username) /\ ~ Missing(b.password)}}
        tokens == IF variant = "todo" THEN {}
                  ELSE {t \in held : auth(<<"Bearer", t>>).next}
        viaMe == {MeHandler(<<"Bearer", t>>) : t \in {u \in tokens : down}}
        viaProfile ==
            UNION {{ProfileHandler(<<"Bearer", t>>, body) : body \in
                      {b \in ProfileBodies :
                          \/ down
                          \/ /\ ~ ProfileFits(b)
                             /\ \E r \in users : r.id = t.payload.id}} :
                   t \in tokens}
    IN  viaRegister \cup viaLogin \cup viaMe \cup viaProfile

\* the one message of the catch blocks
GenericMessage == IF variant = "todo" THEN "Server error" ELSE "server error"

\* C18 (as amended): a store failure other than a uniqueness violation in
\* register, login, /me or updateProfile is answered 500 with the failure
\* envelope {success: false, message: <the fixed server-error text>} and
\* nothing else: no text of the error, no token, and the table as it was.
C18_StoreFailureIsServerError ==
    \A out \in StoreFailures :
        /\ out.res = Json(500, [success |-> FALSE, message |-> GenericMessage])
        /\ out.users = users
        /\ out.issued = {}

\* C18 (as stated): such a failure is answered with one of the kinds 400,
\* 409, 401, 403, 404 and a generic message.
C18_StoreFailureIsTaxonomyKind ==
    \A out \in StoreFailures :
        /\ out.res.status \in {400, 409, 401, 403, 404}
        /\ out.res.body = [success |-> FALSE, message |-> GenericMessage]

\* a profile update was answered 500 while the database was down
C18_Witness ==
    /\ down
    /\ last.op = "profile" /\ last.status = 500
    /\ StoreFailures # {}


\* C19: every stored user can sign in some way: a row of provider 'local'
\* (every row of the two backends without OAuth) has a username and a
\* password hash, a row of provider 'kakao' has a kakao_id.
C19_EveryUserCanSignIn ==
    \A r \in users :
        IF variant = "ecommerce"
        THEN /\ r.provider \in {"local", "kakao"}
             /\ r.provider = "local" =>
                   r.username # Null /\ r.password # NoHash
             /\ r.provider = "kakao" => r.kakao_id # Null
        ELSE r.username # Null /\ r.password # NoHash

\* a registered user and a user created by the callback are both stored
C19_Witness ==
    /\ variant = "ecommerce"
    /\ \E r \in users : r.provider = "local"
    /\ \E r \in users : r.provider = "kakao"


\* C20: no two stored users have the same non-null username, and no two
\* have the same non-null kakao_id, also when registrations and first-time
\* callbacks overlap.
C20_UsernameAndProviderIdUnique ==
    \A r1, r2 \in users :
        r1 # r2 =>
            /\ r1.id # r2.id
            /\ r1.username # Null => r1.username # r2.username
            /\ variant = "ecommerce" =>
                  (r1.kakao_id # Null => r1.kakao_id # r2.kakao_id)

\* two callbacks for one provider id both found no row; both have run
\* their INSERT, and one row has that id
C20_Witness ==
    \E p, q \in Procs :
        /\ p # q
        /\ inflight[p].op = "kakao" /\ inflight[q].op = "kakao"
        /\ inflight[p].pc = "done" /\ inflight[q].pc = "done"
        /\ inflight[p].kakaoId = inflight[q].kakaoId
        /\ ~ inflight[p].found /\ ~ inflight[q].found
        /\ inflight[p].ok /\ ~ inflight[q].ok
        /\ \E r \in users : r.kakao_id = inflight[p].kakaoId


\* the rows that have a nickname column
Nicknamed == IF variant = "todo" THEN {} ELSE users

\* C21: every user record has a nickname that is neither null nor the
\* empty string, whatever register, the callback and updateProfile did.
C21_NicknamePresent ==
    \A r \in Nicknamed : r.nickname # Null /\ r.nickname # ""

\* the nickname column is never null
C21_NicknameNotNull == \A r \in Nicknamed : r.nickname # Null

\* a profile update was answered 200 and the caller's nickname is empty
C21_Witness ==
    /\ variant = "ecommerce"
    /\ last.op = "profile" /\ last.status = 200
    /\ \E r \in users : r.nickname = ""

\* the columns that identify a user and the way the user signs in
Identity(r) == DOMAIN r \cap {"id", "username", "password", "provider", "kakao_id"}

\* C22: a step of any operation keeps every stored user, with the same id,
\* username, password hash, provider and kakao_id.
C22_UsersKeptWithIdentity ==
    [][\A r \in users :
          \E q \in users' :
              /\ q.id = r.id
              /\ \A f \in Identity(r) : q[f] = r[f]]_vars

\* the callback has updated the row of an account that existed before
C22_Witness ==
    /\ last.op = "kakao" /\ last.known /\ last.message = ""
    /\ \E r \in users : r.provider = "kakao"

\* C23: a token the server issued is accepted by the gate, in the name of
\* the user it was issued to, at every time before its expiry, whatever
\* was done since it was issued.
C23_TokenAcceptedUntilExpiry ==
    \A t \in held :
        now < t.exp =>
            LET gate == auth(<<"Bearer", t>>)
            IN  gate.next /\ gate.user.claims = t.payload

\* a kept token is accepted a day or more after it was issued, after a
\* profile update changed the nickname it carries
C23_Witness ==
    /\ variant # "todo"
    /\ last.op = "me" /\ last.status = 200
    /\ \E t \in held :
          /\ t.iat < now /\ now < t.exp
          /\ \E r \in users : r.id = t.payload.id
                              /\ r.nickname # t.payload.nickname

\* the awaited calls of the callback, in the order of the code
CallOrder == <<"exchange", "profile", "select", "write">>

\* C24: a callback makes its calls in the order exchange, profile fetch,
\* store read, store write, each at most once; a call is made only after
\* every call before it answered what the handler goes on with (the
\* profile fetch only after the exchange returned an access token), and a
\* callback whose exchange failed has made no other call and ends in the
\* error redirect.
C24_CallbackCallsOnceInOrder ==
    \A p \in Procs :
        inflight[p].op = "kakao" =>
            LET calls == inflight[p].calls
            IN  /\ Len(calls) <= Len(CallOrder)
                /\ \A i \in 1 .. Len(calls) :
                      /\ calls[i].call = CallOrder[i]
                      /\ i < Len(calls) => calls[i].ok
                /\ \A i \in 1 .. Len(calls) :
                      ~ calls[i].ok =>
                          /\ inflight[p].pc = "done"
                          /\ ~ inflight[p].ok

\* a callback whose exchange was turned down has ended, and another has
\* gone through all four calls
C24_Witness ==
    \E p, q \in Procs :
        /\ inflight[p].op = "kakao" /\ inflight[q].op = "kakao"
        /\ inflight[p].pc = "done" /\ Len(inflight[p].calls) = 1
        /\ ~ inflight[p].calls[1].ok
        /\ inflight[q].pc = "done" /\ Len(inflight[q].calls) = 4

\* the response is the redirect that carries a token
SuccessRedirect(res) == res.kind = "redirect" /\ "token" \in DOMAIN res.location

\* C25: a callback that ends in the success redirect for a provider id no
\* stored user has adds exactly one row: provider 'kakao', no username, no
\* password hash, that provider id, the provider's nickname or the
\* fallback when there is none, under an id no row had; the token of the
\* redirect carries that id.
C25_FirstCallbackCreatesUser ==
    variant = "ecommerce" =>
      \A r \in KakaoRequests :
        LET out == KakaoCallbackHandler(r.code, r.exchange, r.profile)
        IN  ( /\ "id" \in DOMAIN r.profile
              /\ \A u \in users : u.kakao_id # ToString(r.profile.id)
              /\ SuccessRedirect(out.res) )
            => /\ users \subseteq out.users
               /\ Cardinality(out.users \ users) = 1
               /\ \A row \in out.users \ users :
                     /\ row.provider = "kakao"
                     /\ row.username = Null
                     /\ row.password = NoHash
                     /\ row.kakao_id = ToString(r.profile.id)
                     /\ row.nickname = IF Missing(r.profile.nickname)
                                       THEN KakaoFallbackNickname
                                       ELSE r.profile.nickname
                     /\ \A u \in users : u.id # row.id
                     /\ out.res.location.token.payload.id = row.id

\* a first callback without a provider nickname ended in the success
\* redirect, and the user it created has the fallback nickname
C25_Witness ==
    /\ last.op = "kakao" /\ ~ last.known /\ last.message = ""
    /\ \E r \in users : r.provider = "kakao" /\ r.nickname = KakaoFallbackNickname

\* the row of an existing account after a callback with this profile
Refreshed(u, profile) ==
    [u EXCEPT !.nickname = IF Missing(profile.nickname)
                           THEN KakaoFallbackNickname ELSE profile.nickname,
              !.profile_image = IF Missing(profile.profile_image)
                                THEN u.profile_image ELSE profile.profile_image,
              !.email = IF Missing(profile.email) THEN u.email ELSE profile.email]

\* C26: a callback that ends in the success redirect for a provider id a
\* stored user has leaves that user's row with the provider's nickname (the
\* fallback when there is none) whatever nickname was stored, with the
\* provider's image and e-mail where the provider sent one and the stored
\* ones where it did not; nothing else changes.
C26_CallbackRefreshesProfile ==
    variant = "ecommerce" =>
      \A r \in KakaoRequests :
        LET out == KakaoCallbackHandler(r.code, r.exchange, r.profile)
        IN  \A u \in users :
              ( /\ "id" \in DOMAIN r.profile
                /\ u.kakao_id = ToString(r.profile.id)
                /\ SuccessRedirect(out.res) )
              => out.users = (users \ {u}) \cup {Refreshed(u, r.profile)}

\* a callback with a nickname only refreshed an account whose image and
\* e-mail came from an earlier callback: the nickname is the provider's,
\* the image and the e-mail are the stored ones
C26_Witness ==
    /\ last.op = "kakao" /\ last.known /\ last.message = ""
    /\ \E u \in users :
          /\ u.provider = "kakao"
          /\ u.nickname = "K" /\ u.email = "e1" /\ u.profile_image = "i1"

\* a federated account carries a nickname set through updateProfile
C26_NicknameSetByUser ==
    /\ variant = "ecommerce"
    /\ \E u \in users : u.provider = "kakao" /\ u.nickname = "X"

\* C27 (as the specification states it): the statements of the lazy table
\* initialisation run at most once in a process, however the first requests
\* arrive.
C27_InitialisedOnce == variant # "todo" => db.creates <= 1

\* two first requests passed the flag before either set it, and both had
\* the tables created
C27_Witness ==
    /\ variant # "todo"
    /\ db.creates = 2
    /\ \A p \in Procs : inflight[p].op = "api" /\ inflight[p].handled

\* C28: in the todo server an item is returned to, changed by and deleted
\* by its owner only.  For a caller the gate lets through: the list is
\* exactly the caller's items; an update or a delete leaves every item of
\* other users as it is and returns no item but one of the caller's; and
\* one that names an item of another user is answered 404 with nothing
\* changed.
C28_TodoOwnerOnly ==
    variant = "todo" =>
      \A t \in held :
        LET header == <<"Bearer", t>>
            caller == t.payload.id
            others == {r \in todos : r.user_id # caller}
            OwnerOnly(out, param) ==
                /\ others \subseteq out.todos
                /\ "data" \in DOMAIN out.res.body
                      => out.res.body.data.user_id = caller
                /\ (\E r \in others : ToString(r.id) = param)
                      => /\ out.res.status = 404
                         /\ out.res.body.success = FALSE
                         /\ "data" \notin DOMAIN out.res.body
                         /\ out.todos = todos
        IN  auth(header).next =>
              /\ LET out == ListTodosHandler(header)
                 IN  /\ out.res.status = 200
                     /\ out.res.body.data = {r \in todos : r.user_id = caller}
                     /\ out.todos = todos
              /\ \A param \in TodoParams :
                    /\ OwnerOnly(DeleteTodoHandler(header, param), param)
                    /\ \A body \in UpdateTodoBodies :
                          OwnerOnly(UpdateTodoHandler(header, param, body), param)

\* bob asked to change an item that is alice's and was told there is none;
\* the item is still there
C28_Witness ==
    /\ variant = "todo"
    /\ last.op = "putTodo" /\ last.status = 404 /\ last.known
    /\ held # {}
    /\ \E r \in todos : \A t \in held : r.user_id # t.payload.id
    /\ \E r \in todos : \E t \in held : r.user_id = t.payload.id

\* the callbacks that have ended after both provider calls succeeded and
\* the SELECT found no row for the provider id k
FirstCallbacksDone(k) ==
    {p \in Procs :
        /\ inflight[p].op = "kakao" /\ inflight[p].pc = "done"
        /\ inflight[p].kakaoId = k /\ ~ inflight[p].found
        /\ Len(inflight[p].calls) = Len(CallOrder)
        /\ \A i \in 1 .. 3 : inflight[p].calls[i].ok}

\* C29 (as the specification implies it): when two callbacks for one
\* provider id no user has yet overlap and their provider calls succeed,
\* then under every interleaving one row is created and both end in the
\* success redirect, with tokens that carry that row's id.
C29_ConcurrentFirstCallbacksBothSucceed ==
    \A k \in {"1001", "1002"} :
        LET ended == FirstCallbacksDone(k)
            rows == {r \in users : r.kakao_id = k}
        IN  Cardinality(ended) >= 2 =>
              /\ Cardinality(rows) = 1
              /\ \A p \in ended :
                    /\ inflight[p].ok
                    /\ \E r \in rows : r.id = inflight[p].tokenId

\* of two overlapping first callbacks for 1001 one created the row and got
\* its token; the INSERT of the other was turned down and it got no token
C29_Witness ==
    /\ Cardinality(FirstCallbacksDone("1001")) = 2
    /\ Cardinality({r \in users : r.kakao_id = "1001"}) = 1
    /\ \E p, q \in FirstCallbacksDone("1001") :
          /\ inflight[p].ok /\ inflight[p].tokenId > 0
          /\ ~ inflight[q].ok /\ inflight[q].tokenId = 0
          /\ ~ inflight[q].calls[4].ok

\* a request under /api whose route handler is running or has run
InHandler(r) == r.op = "api" /\ (r.pc = "handler" \/ r.handled)

\* C30 (as stated): no /api route handler executes before the table
\* initialisation has completed successfully, every statement of it.
C30_HandlerAfterCompleteInit ==
    \A p \in Procs : InHandler(inflight[p]) => db.ready /\ db.complete

\* C30 (amended): a route handler runs only once initDB has returned, its
\* CREATE TABLE having succeeded (the todo server listens only from then on);
\* a request whose initDB rejects is answered 500 'Database initialization
\* failed' without reaching its handler and leaves the flag as it was; and a
\* request that finds the flag false starts the initialisation again.
C30_HandlerAfterTablesCreated ==
    [][\A p \in Procs :
          /\ InHandler(inflight'[p]) => db'.ready /\ db'.creates >= 1
          /\ (db'.ready /\ ~ db.ready) => db.creates >= 1
          /\ (/\ inflight[p].op = "api" /\ inflight[p].pc \in {"create", "second"}
              /\ inflight'[p].pc = "done")
             => /\ ~ inflight'[p].handled
                /\ inflight'[p].status = 500
                /\ inflight'[p].message = "Database initialization failed"
                /\ db' = db
          /\ (inflight[p] = Idle /\ inflight'[p] # Idle /\ ~ db.ready)
             => inflight'[p].pc = "create"]_vars

\* one request was answered by the middleware while the database was away
\* and the flag false; a later one had the tables created and was served
C30_Witness ==
    /\ variant # "todo"
    /\ db.ready
    /\ \E p, q \in Procs :
          /\ inflight[p].op = "api" /\ inflight[p].pc = "done"
          /\ ~ inflight[p].handled /\ inflight[p].status = 500
          /\ inflight[q].op = "api" /\ inflight[q].handled
          /\ db.creates = 1

====
